---- MODULE Spec2Model ----
(***************************************************************************)
(* A model of hltv_demo_scraper: the command line entry point (cli.py),    *)
(* the download engine (downloader.py) and the metadata collector          *)
(* (metadata.py).                                                          *)
(*                                                                         *)
(* Text is modelled as a sequence of one-character strings, so that the    *)
(* conversions of the program (str, int, strip, Path.name, ...) are        *)
(* computed and not assumed.  An optional value is <<>> (None) or <<v>>.   *)
(***************************************************************************)
EXTENDS Integers, Sequences, FiniteSets, TLC

\* ------------------------------------------------------------------ bounds
\* Largest demo ID that the inputs mention.
MaxId == 2
\* Largest configured --retries value that is explored (smallest is 0).
MaxRetries == 2
\* Longest batch handed to download_many by a caller other than main.
MaxBatch == 2
\* The longest list of explicit IDs (--id) of specification SpecIds.
MaxExplicit == 3
\* The longest span end_id - start_id of specification SpecGen.
MaxSpan == 3

\* ----------------------------------------------------------- Python values
None == <<>>
Some(v) == <<v>>
IsNone(o) == o = <<>>
Get(o) == o[1]

Max(a, b) == IF a >= b THEN a ELSE b

\* ------------------------------------------------------------------- text
DigitChars == <<"0", "1", "2", "3", "4", "5", "6", "7", "8", "9">>
IsDigit(c) == \E i \in 1..10 : DigitChars[i] = c
DigitVal(c) == (CHOOSE i \in 1..10 : DigitChars[i] = c) - 1
Whitespace == {" ", "\t", "\n"}

\* str(n) of a Python int: decimal digits, "-" in front of a negative one.
RECURSIVE NatStr(_)
NatStr(n) == IF n < 10 THEN <<DigitChars[n + 1]>>
             ELSE NatStr(n \div 10) \o <<DigitChars[(n % 10) + 1]>>
PyStr(n) == IF n < 0 THEN <<"-">> \o NatStr(0 - n) ELSE NatStr(n)

\* s.strip(): leading and trailing whitespace removed.
RECURSIVE LStrip(_)
LStrip(s) == IF s # <<>> /\ Head(s) \in Whitespace THEN LStrip(Tail(s)) ELSE s
RECURSIVE RStrip(_)
RStrip(s) == IF s # <<>> /\ s[Len(s)] \in Whitespace
             THEN RStrip(SubSeq(s, 1, Len(s) - 1)) ELSE s
Strip(s) == RStrip(LStrip(s))

StartsWith(s, p) == Len(p) <= Len(s) /\ SubSeq(s, 1, Len(p)) = p

\* int(s) for a str: optional sign, then digits, single underscores allowed
\* between digits; anything else raises ValueError.  [ok, val].
RECURSIVE DigitsVal(_)
DigitsVal(s) == IF s = <<>> THEN 0
                ELSE IF s[Len(s)] = "_" THEN DigitsVal(SubSeq(s, 1, Len(s) - 1))
                ELSE 10 * DigitsVal(SubSeq(s, 1, Len(s) - 1)) + DigitVal(s[Len(s)])
IsIntBody(s) ==
    /\ s # <<>>
    /\ IsDigit(s[1]) /\ IsDigit(s[Len(s)])
    /\ \A i \in 1..Len(s) : IsDigit(s[i]) \/ s[i] = "_"
    /\ \A i \in 1..(Len(s) - 1) : ~(s[i] = "_" /\ s[i + 1] = "_")
PyInt(text) ==
    LET s == Strip(text)
        signed == s # <<>> /\ s[1] \in {"+", "-"}
        body == IF signed THEN Tail(s) ELSE s
    IN IF IsIntBody(body)
       THEN [ok |-> TRUE,
             val |-> IF signed /\ s[1] = "-" THEN 0 - DigitsVal(body)
                     ELSE DigitsVal(body)]
       ELSE [ok |-> FALSE, val |-> 0]

\* ------------------------------------------------- downloader.py: ID lists
\* A loop that keeps every ID, seen before or not.
UniqueStepKeepsAll(acc, demo_id) ==
    [seen |-> acc.seen \cup {demo_id},
     ordered_ids |-> Append(acc.ordered_ids, demo_id)]

\* unique_demo_ids: the loop state after the first i elements.
UniqueStep(acc, demo_id) ==
    IF demo_id \in acc.seen THEN acc
    ELSE [seen |-> acc.seen \cup {demo_id},
          ordered_ids |-> Append(acc.ordered_ids, demo_id)]
RECURSIVE UniqueLoop(_, _)
UniqueLoop(acc, rest) ==
    IF rest = <<>> THEN acc ELSE UniqueLoop(UniqueStep(acc, Head(rest)), Tail(rest))
unique_demo_ids(demo_ids) ==
    UniqueLoop([seen |-> {}, ordered_ids |-> <<>>], demo_ids).ordered_ids

\* range(a, b + 1) as a list.
PyRange(a, b) == [i \in 1..Max(0, b - a + 1) |-> a + i - 1]

\* ---------------------------------------------------- cli.py: ID collection
\* A reading of ID files that passes over the lines it cannot parse.
LineIdsLenient(line) ==
    IF PyInt(Strip(line)).ok THEN [ok |-> TRUE, ids |-> <<PyInt(Strip(line)).val>>]
    ELSE [ok |-> TRUE, ids |-> <<>>]

\* One line of an ID file: skipped, an ID, or a ValueError.
LineIds(line) ==
    LET stripped == Strip(line)
    IN IF stripped = <<>> \/ stripped[1] = "#" THEN [ok |-> TRUE, ids |-> <<>>]
       ELSE IF PyInt(stripped).ok
            THEN [ok |-> TRUE, ids |-> <<PyInt(stripped).val>>]
            ELSE [ok |-> FALSE, ids |-> <<>>]

\* _load_ids_from_files over a list of files, each None (it cannot be opened)
\* or Some(lines).  [exit, demo_ids]: exit is "ok", "SystemExit" (a bad line)
\* or "OSError" (open failed); the first failure in reading order wins.
RECURSIVE LoadLines(_, _)
LoadLines(lines, demo_ids) ==
    IF lines = <<>> THEN [exit |-> "ok", demo_ids |-> demo_ids]
    ELSE IF ~LineIds(Head(lines)).ok THEN [exit |-> "SystemExit", demo_ids |-> demo_ids]
    ELSE LoadLines(Tail(lines), demo_ids \o LineIds(Head(lines)).ids)
RECURSIVE LoadFiles(_, _)
LoadFiles(files, demo_ids) ==
    IF files = <<>> THEN [exit |-> "ok", demo_ids |-> demo_ids]
    ELSE IF IsNone(Head(files)) THEN [exit |-> "OSError", demo_ids |-> demo_ids]
    ELSE LET r == LoadLines(Get(Head(files)), demo_ids)
         IN IF r.exit # "ok" THEN r ELSE LoadFiles(Tail(files), r.demo_ids)
_load_ids_from_files(files) == LoadFiles(files, <<>>)

\* _collect_demo_ids(args): [exit, ids].
_collect_demo_ids(a) ==
    LET ids1 == IF a.ids # <<>> THEN a.ids ELSE <<>>
        loaded == IF a.ids_file # <<>> THEN _load_ids_from_files(a.ids_file)
                  ELSE [exit |-> "ok", demo_ids |-> <<>>]
        ids2 == ids1 \o loaded.demo_ids
    IN IF loaded.exit # "ok" THEN [exit |-> loaded.exit, ids |-> <<>>]
       ELSE IF ~IsNone(a.start_id) \/ ~IsNone(a.end_id)
            THEN IF IsNone(a.start_id) \/ IsNone(a.end_id)
                 THEN [exit |-> "SystemExit", ids |-> <<>>]
                 ELSE IF Get(a.end_id) < Get(a.start_id)
                      THEN [exit |-> "SystemExit", ids |-> <<>>]
                      ELSE [exit |-> "ok",
                            ids |-> unique_demo_ids(
                                ids2 \o PyRange(Get(a.start_id), Get(a.end_id)))]
            ELSE [exit |-> "ok", ids |-> unique_demo_ids(ids2)]

\* ------------------------------------------- text helpers for file names
Upper == <<"A", "B", "C", "D", "E", "F", "G", "H", "I", "J", "K", "L", "M",
           "N", "O", "P", "Q", "R", "S", "T", "U", "V", "W", "X", "Y", "Z">>
Lower == <<"a", "b", "c", "d", "e", "f", "g", "h", "i", "j", "k", "l", "m",
           "n", "o", "p", "q", "r", "s", "t", "u", "v", "w", "x", "y", "z">>
LowerChar(c) == IF \E i \in 1..26 : Upper[i] = c
                THEN Lower[CHOOSE i \in 1..26 : Upper[i] = c] ELSE c
\* s.lower()
PyLower(s) == [i \in 1..Len(s) |-> LowerChar(s[i])]

\* s.strip(chars) for a set of characters.
RECURSIVE LStripChars(_, _)
LStripChars(s, cs) == IF s # <<>> /\ Head(s) \in cs THEN LStripChars(Tail(s), cs) ELSE s
RECURSIVE RStripChars(_, _)
RStripChars(s, cs) == IF s # <<>> /\ s[Len(s)] \in cs
                      THEN RStripChars(SubSeq(s, 1, Len(s) - 1), cs) ELSE s
StripChars(s, cs) == RStripChars(LStripChars(s, cs), cs)

\* s.split(c): the pieces between the occurrences of the character c.
Split(s, c) ==
    LET at == SelectSeq([i \in 1..Len(s) |-> i], LAMBDA i : s[i] = c)
        from(k) == IF k = 1 THEN 1 ELSE at[k - 1] + 1
        to(k) == IF k = Len(at) + 1 THEN Len(s) ELSE at[k] - 1
    IN [k \in 1..(Len(at) + 1) |-> SubSeq(s, from(k), to(k))]

Contains(s, c) == \E i \in 1..Len(s) : s[i] = c
\* Index of the first occurrence of the character c in s (c occurs in s).
Find(s, c) == CHOOSE i \in 1..Len(s) : s[i] = c /\ \A j \in 1..(i - 1) : s[j] # c

\* PurePosixPath(s).name: the last component that is neither empty nor ".".
PathName(s) ==
    LET parts == SelectSeq(Split(s, "/"), LAMBDA p : p # <<>> /\ p # <<".">>)
    IN IF parts = <<>> THEN <<>> ELSE parts[Len(parts)]

\* value.partition("''")[2]: what follows the first '' ; empty when there is none.
RECURSIVE AfterTwoQuotes(_)
AfterTwoQuotes(s) ==
    IF Len(s) < 2 THEN <<>>
    ELSE IF s[1] = "'" /\ s[2] = "'" THEN SubSeq(s, 3, Len(s))
    ELSE AfterTwoQuotes(Tail(s))

\* urllib.parse.unquote on the escapes of the characters the model uses: %XY
\* with two hex digits becomes the character of that code; a % that is not
\* followed by two hex digits stays as it is.  Codes outside the table stand
\* for non-ASCII bytes and decode to the replacement character.
HexChars == <<"0", "1", "2", "3", "4", "5", "6", "7", "8", "9",
              "A", "B", "C", "D", "E", "F">>
IsHex(c) == \E i \in 1..16 : HexChars[i] = c \/ LowerChar(HexChars[i]) = c
HexVal(c) == (CHOOSE i \in 1..16 : HexChars[i] = c \/ LowerChar(HexChars[i]) = c) - 1
AsciiTable == [x \in {} |-> ""] @@ (32 :> " ") @@ (34 :> "\"") @@ (37 :> "%") @@ (46 :> ".")
              @@ (47 :> "/") @@ (49 :> "1") @@ (50 :> "2") @@ (59 :> ";")
              @@ (61 :> "=") @@ (95 :> "_") @@ (109 :> "m") @@ (120 :> "x")
CharOfCode(n) == IF n \in DOMAIN AsciiTable THEN AsciiTable[n] ELSE "<U+FFFD>"
RECURSIVE Unquote(_)
Unquote(s) ==
    IF s = <<>> THEN <<>>
    ELSE IF s[1] = "%" /\ Len(s) >= 3 /\ IsHex(s[2]) /\ IsHex(s[3])
         THEN <<CharOfCode(16 * HexVal(s[2]) + HexVal(s[3]))>> \o Unquote(SubSeq(s, 4, Len(s)))
         ELSE <<s[1]>> \o Unquote(Tail(s))

\* ------------------------------------------- downloader.py: file names
\* _parse_content_disposition: None, or Some(name) of the first filename* or
\* filename parameter after the disposition type.
RECURSIVE ParseParts(_)
ParseParts(parts) ==
    IF parts = <<>> THEN None
    ELSE LET part == Head(parts)
         IN IF ~Contains(part, "=") THEN ParseParts(Tail(parts))
            ELSE LET eq == Find(part, "=")
                     key == Strip(PyLower(SubSeq(part, 1, eq - 1)))
                     value == StripChars(Strip(SubSeq(part, eq + 1, Len(part))), {"\""})
                     encoded_value == AfterTwoQuotes(value)
                     candidate == IF encoded_value # <<>> THEN encoded_value ELSE value
                 IN IF key = <<"f", "i", "l", "e", "n", "a", "m", "e", "*">>
                    THEN Some(PathName(Unquote(candidate)))
                    ELSE IF key = <<"f", "i", "l", "e", "n", "a", "m", "e">>
                         THEN Some(PathName(value))
                         ELSE ParseParts(Tail(parts))
_parse_content_disposition(header_value) ==
    LET stripped == [i \in 1..Len(Split(header_value, ";")) |->
                        Strip(Split(header_value, ";")[i])]
        parts == SelectSeq(stripped, LAMBDA p : p # <<>>)
    IN IF parts = <<>> THEN None ELSE ParseParts(Tail(parts))

\* A prefixing that does not look at what the name starts with.
PrefixAlways(filename, demo_id) == PyStr(demo_id) \o <<"_">> \o filename

\* A prefix test that looks for the digits of the ID only, without the "_".
PrefixLoose(filename, demo_id) ==
    LET sanitized == PathName(filename)
    IN IF StartsWith(sanitized, PyStr(demo_id)) THEN sanitized
       ELSE PyStr(demo_id) \o <<"_">> \o sanitized

\* _ensure_demo_id_prefix
_ensure_demo_id_prefix(filename, demo_id) ==
    LET sanitized == PathName(filename)
        prefix == PyStr(demo_id) \o <<"_">>
    IN IF StartsWith(sanitized, prefix) THEN sanitized ELSE prefix \o sanitized

\* _filename_from_response: the response's Content-Disposition header (None
\* when absent) and its final URL.
_filename_from_response(response, demo_id) ==
    LET disposition == response.content_disposition
        parsed == IF ~IsNone(disposition) /\ Get(disposition) # <<>>
                  THEN _parse_content_disposition(Get(disposition)) ELSE None
        from_url == Split(PathName(response.url), "?")[1]
    IN IF ~IsNone(parsed) /\ Get(parsed) # <<>>
       THEN _ensure_demo_id_prefix(Get(parsed), demo_id)
       ELSE IF from_url # <<>>
            THEN _ensure_demo_id_prefix(from_url, demo_id)
            ELSE PyStr(demo_id) \o <<"_", "d", "e", "m", "o", ".", "r", "a", "r">>

\* DEMO_URL_TEMPLATE.format(demo_id=demo_id)
DEMO_URL_TEMPLATE ==
    <<"h", "t", "t", "p", "s", ":", "/", "/", "w", "w", "w", ".", "h", "l", "t", "v",
      ".", "o", "r", "g", "/", "d", "o", "w", "n", "l", "o", "a", "d", "/", "d", "e",
      "m", "o", "/">>
DemoUrl(demo_id) == DEMO_URL_TEMPLATE \o PyStr(demo_id)

\* ------------------------------------------------ metadata.py: match data
\* _BASE_URL
BaseUrl == <<"h", "t", "t", "p", "s", ":", "/", "/", "w", "w", "w", ".", "h", "l", "t", "v",
             ".", "o", "r", "g">>
\* urljoin(_BASE_URL, href) for a path: a rooted href replaces the path of
\* the base, any other one is appended to its root.
UrlJoin(href) == IF href[1] = "/" THEN BaseUrl \o href ELSE BaseUrl \o <<"/">> \o href

\* _parse_match_id: the path segment that follows "matches", or None.
_parse_match_id(match_url) ==
    LET path == Split(match_url, "?")[1]
        parts == Split(RStripChars(path, {"/"}), "/")
        key == <<"m", "a", "t", "c", "h", "e", "s">>
    IN IF ~\E i \in 1..Len(parts) : parts[i] = key THEN None
       ELSE LET index == CHOOSE i \in 1..Len(parts) :
                             parts[i] = key /\ \A j \in 1..(i - 1) : parts[j] # key
            IN IF index + 1 > Len(parts) THEN None ELSE Some(parts[index + 1])

\* The de-duplicating loop of _extract_teams over the names of one selector.
RECURSIVE TeamLoop(_, _)
TeamLoop(teams, names) ==
    IF names = <<>> THEN teams
    ELSE IF Head(names) = "" \/ (\E i \in 1..Len(teams) : teams[i] = Head(names))
         THEN TeamLoop(teams, Tail(names))
         ELSE TeamLoop(Append(teams, Head(names)), Tail(names))
\* _extract_teams: soup.teams_box and soup.teams_dropdown are the texts the
\* two selectors yield, in page order.
_extract_teams(soup) ==
    LET teams == TeamLoop(<<>>, soup.teams_box)
    IN IF teams # <<>> THEN teams ELSE TeamLoop(teams, soup.teams_dropdown)

\* _extract_match_date: soup.data_unix is None (no element) or the attribute's
\* text; the date is kept as the day number since the epoch it denotes.
MsPerDay == 1000 * 86400
_extract_match_date(soup) ==
    IF IsNone(soup.data_unix) THEN None
    ELSE IF ~PyInt(Get(soup.data_unix)).ok THEN None
    ELSE Some([epoch_day |-> PyInt(Get(soup.data_unix)).val \div MsPerDay])

\* _locate_match_url: net.search is "ConnectionError" (the GET raised),
\* "HTTPError" (raise_for_status raised) or "ok"; net.href is the href of
\* the first result card, None when the page has none.
_locate_match_url(net) ==
    IF net.search # "ok" THEN [raised |-> Some(net.search), url |-> None]
    ELSE IF IsNone(net.href) \/ Get(net.href) = <<>> THEN [raised |-> None, url |-> None]
    ELSE [raised |-> None, url |-> Some(UrlJoin(Get(net.href)))]

\* _fetch_match_page: net.page is "ConnectionError", "HTTPError" or "ok", and
\* net.soup the parsed page.
_fetch_match_page(net) ==
    IF net.page # "ok" THEN [raised |-> Some(net.page), soup |-> None]
    ELSE [raised |-> None, soup |-> Some(net.soup)]

\* A _collect_match_metadata without the handler of lines 91-93: a failed
\* fetch of the match page leaves it.
CollectAborts(net) ==
    LET located == _locate_match_url(net)
    IN IF ~IsNone(located.raised) THEN [raised |-> located.raised, value |-> None]
       ELSE IF IsNone(located.url) THEN [raised |-> None, value |-> None]
       ELSE LET match_url == Get(located.url)
                fetched == _fetch_match_page(net)
            IN IF ~IsNone(fetched.raised) THEN [raised |-> fetched.raised, value |-> None]
               ELSE [raised |-> None,
                     value |-> Some([match_id |-> _parse_match_id(match_url),
                                     match_url |-> Some(match_url),
                                     teams |-> _extract_teams(Get(fetched.soup)),
                                     date |-> _extract_match_date(Get(fetched.soup))])]

\* _collect_match_metadata: [raised, value]; value is None or
\* Some(MatchMetadata.as_dict()).
_collect_match_metadata(net) ==
    LET located == _locate_match_url(net)
    IN IF ~IsNone(located.raised) THEN [raised |-> located.raised, value |-> None]
       ELSE IF IsNone(located.url) THEN [raised |-> None, value |-> None]
       ELSE LET match_url == Get(located.url)
                fetched == _fetch_match_page(net)
                soup == IF ~IsNone(fetched.raised) THEN None ELSE fetched.soup
            IN [raised |-> None,
                value |-> Some([match_id |-> _parse_match_id(match_url),
                                match_url |-> Some(match_url),
                                teams |-> IF IsNone(soup) THEN <<>>
                                          ELSE _extract_teams(Get(soup)),
                                date |-> IF IsNone(soup) THEN None
                                         ELSE _extract_match_date(Get(soup))])]

\* --------------------------------------------- metadata.py: the document
\* The metadata file is [state, doc]: state "missing", "undecodable" (not
\* UTF-8), "unparseable" (text that is no JSON) or "json", and doc the JSON
\* value it holds.  A JSON value is a
\* record with a type; an object carries its members as a function.
JNull == [type |-> "null"]
JObject(members) == [type |-> "object", members |-> members]
EmptyMembers == [k \in {} |-> JNull]
MissingFile == [state |-> "missing", doc |-> JNull]
UnparseableFile == [state |-> "unparseable", doc |-> JNull]
JsonFile(doc) == [state |-> "json", doc |-> doc]

\* A file whose bytes are no UTF-8 text.
UndecodableFile == [state |-> "undecodable", doc |-> JNull]

\* _load_metadata: [raised, doc].  A missing file is the empty document;
\* json.load reads the text (UnicodeDecodeError, a ValueError that is no
\* JSONDecodeError, for bytes that are no UTF-8) and parses it
\* (JSONDecodeError, the one exception caught, gives the empty document).
_load_metadata(file) ==
    IF file.state = "missing" THEN [raised |-> None, doc |-> JObject(EmptyMembers)]
    ELSE IF file.state = "undecodable"
         THEN [raised |-> Some("UnicodeDecodeError"), doc |-> JNull]
    ELSE IF file.state = "unparseable" THEN [raised |-> None, doc |-> JObject(EmptyMembers)]
    ELSE [raised |-> None, doc |-> file.doc]

\* dict[key] = value
SetItem(members, key, value) ==
    [k \in DOMAIN members \cup {key} |-> IF k = key THEN value ELSE members[k]]

\* --------------------------------------- downloader.py: write_demo_id_file
\* The directories above a path: its prefixes that end with "/".
ParentDirs(path) == {SubSeq(path, 1, i) : i \in {j \in 1..Len(path) : path[j] = "/"}}
\* mkdir(parents=True, exist_ok=True): a directory is a key that ends with "/".
MkDirs(files, path) ==
    [k \in DOMAIN files \cup ParentDirs(path) |-> IF k \in DOMAIN files THEN files[k] ELSE <<>>]
\* What the loop of lines 205-206 has written after the first n IDs.
RECURSIVE IdLinesWritten(_, _)
IdLinesWritten(start_id, n) ==
    IF n = 0 THEN <<>>
    ELSE IdLinesWritten(start_id, n - 1) \o PyStr(start_id + n - 1) \o <<"\n">>
\* A write that never compares the two IDs.
WriteUnchecked(start_id, end_id, destination, files, io) ==
    [raised |-> None,
     fs |-> SetItem(MkDirs(files, destination), destination,
                    IdLinesWritten(start_id, Max(0, end_id - start_id + 1)))]

\* write_demo_id_file: [raised, fs].  io is what the file system does:
\* io.stage is "mkdir" (mkdir raises), "open" (open raises), "write" (a write
\* raises, with the first io.cut IDs in the file) or "ok".
write_demo_id_file(start_id, end_id, destination, files, io) ==
    IF end_id < start_id THEN [raised |-> Some("ValueError"), fs |-> files]
    ELSE IF io.stage = "mkdir" THEN [raised |-> Some("OSError"), fs |-> files]
    ELSE IF io.stage = "open"
         THEN [raised |-> Some("OSError"), fs |-> MkDirs(files, destination)]
    ELSE IF io.stage = "write"
         THEN [raised |-> Some("OSError"),
               fs |-> SetItem(MkDirs(files, destination), destination,
                              IdLinesWritten(start_id, io.cut))]
    ELSE [raised |-> None,
          fs |-> SetItem(MkDirs(files, destination), destination,
                         IdLinesWritten(start_id, end_id - start_id + 1))]

\* record_download lines 75-77: the merge of the entry into the loaded
\* document.  [raised, doc].
MergeEntry(metadata, demo_id, entry, now) ==
    IF metadata.type # "object"
    THEN [raised |-> Some("AttributeError"), doc |-> metadata]
    ELSE LET with_demos == IF "demos" \in DOMAIN metadata.members THEN metadata.members
                           ELSE SetItem(metadata.members, "demos", JObject(EmptyMembers))
             demos == with_demos["demos"]
         IN IF demos.type # "object"
            THEN [raised |-> Some("TypeError"), doc |-> metadata]
            ELSE [raised |-> None,
                  doc |-> JObject(SetItem(
                      SetItem(with_demos, "demos",
                              JObject(SetItem(demos.members, PyStr(demo_id), entry))),
                      "last_updated", [type |-> "string", at |-> now]))]

\* _write_metadata: [raised, file].  write is what the file system does:
\* "open_fails" (open("w") raises OSError and the file is as it was),
\* "write_fails" (open("w") has emptied the file and json.dump raises
\* OSError: what is left is no JSON document) or "ok".
_write_metadata(file, metadata, write) ==
    IF write = "open_fails" THEN [raised |-> Some("OSError"), file |-> file]
    ELSE IF write = "write_fails" THEN [raised |-> Some("OSError"), file |-> UnparseableFile]
    ELSE [raised |-> None, file |-> JsonFile(metadata)]

\* A record_download without the handler of lines 60-62: what
\* _collect_match_metadata raises leaves the call.
RecordPropagates(file, demo_id, dest_name, file_size, original_url, response, env, now) ==
    LET collected == _collect_match_metadata(env.net)
        base == [filename |-> dest_name,
                 match_info |-> collected.value,
                 download_date |-> now,
                 file_size |-> file_size,
                 original_url |-> original_url]
        entry == JObject(IF response.url # <<>>
                         THEN base @@ [resolved_download_url |-> response.url]
                         ELSE base)
        loaded == _load_metadata(file)
        merged == MergeEntry(loaded.doc, demo_id, entry, now)
    IN IF ~IsNone(collected.raised) THEN [raised |-> collected.raised, file |-> file]
       ELSE IF ~env.stat_ok THEN [raised |-> Some("OSError"), file |-> file]
       ELSE IF ~IsNone(loaded.raised) THEN [raised |-> loaded.raised, file |-> file]
       ELSE IF ~IsNone(merged.raised) THEN [raised |-> merged.raised, file |-> file]
       ELSE _write_metadata(file, merged.doc, env.write)

\* record_download.  env is what the environment does during the call: the
\* network (env.net), file_path.stat() (env.stat_ok) and the write of the
\* metadata file (env.write); now is what datetime.now() returns.
\* [raised, file].
record_download(file, demo_id, dest_name, file_size, original_url, response, env, now) ==
    LET collected == _collect_match_metadata(env.net)
        match_metadata == IF ~IsNone(collected.raised) THEN None ELSE collected.value
        base == [filename |-> dest_name,
                 match_info |-> match_metadata,
                 download_date |-> now,
                 file_size |-> file_size,
                 original_url |-> original_url]
        entry == JObject(IF response.url # <<>>
                         THEN base @@ [resolved_download_url |-> response.url]
                         ELSE base)
        loaded == _load_metadata(file)
        merged == MergeEntry(loaded.doc, demo_id, entry, now)
    IN IF ~env.stat_ok THEN [raised |-> Some("OSError"), file |-> file]
       ELSE IF ~IsNone(loaded.raised) THEN [raised |-> loaded.raised, file |-> file]
       ELSE IF ~IsNone(merged.raised) THEN [raised |-> merged.raised, file |-> file]
       ELSE _write_metadata(file, merged.doc, env.write)

\* ------------------------------------------------------------- the state
VARIABLES
    pc,             \* where main / download_many / download_demo stands
    args,           \* None, or Some(the parsed arguments of the download command)
    downloader,     \* None, or Some(the DemoDownloader: retries, skip_existing, metadata_collector)
    demo_ids,       \* the batch handed to download_many
    results,        \* download_many's results list
    demo_id,        \* download_many's loop variable, download_demo's argument
    attempt,        \* download_demo's loop variable
    last_error,     \* download_demo's last_error
    pending,        \* None, or Some(destination, response) of the body just streamed
    fs,             \* the output directory: file name -> bytes
    metadata_file,  \* the metadata file
    clock,          \* what datetime.now() returns next
    out,            \* the lines _print_summary has logged
    exit_status,    \* None, or Some(the status main returned or exited with)
    exc,            \* None, or Some(the exception that ended the run)
    calls,          \* history: GETs of the download URL by this download_demo
    chunks_read,    \* history: chunks taken from the body of the last response
    recorded,       \* history: the IDs record_download was called for
    delivered,      \* history: Some(the bytes of the body this download_demo streamed to its end)
    last_response,  \* history: None, or Some(the response of the last GET of the download URL)
    record_raised,  \* history: None, or Some(the exception the last record_download raised)
    record_env,     \* history: None, or Some(what the environment did in the last record_download)
    fs_error,       \* history: None, or Some("open" or "write"), the call on the file that raised
    fs_before       \* history: the output directory as this download_demo found it

vars == <<pc, args, downloader, demo_ids, results, demo_id, attempt, last_error, pending,
          fs, metadata_file, clock, out, exit_status, exc, calls, chunks_read, recorded,
          delivered, last_response, record_raised, record_env, fs_error, fs_before>>

\* DownloadResult(demo_id, status, message, file_path): the dataclass's fields.
DownloadResult(id, status, message, file_path) ==
    [demo_id |-> id, status |-> status, message |-> message, file_path |-> file_path]

\* DemoDownloader.__init__
DemoDownloader(retries, skip_existing, metadata_path) ==
    [retries |-> Max(1, retries),
     skip_existing |-> skip_existing,
     metadata_collector |-> ~IsNone(metadata_path)]

\* ------------------------------------------------- cli.py: main, download
MetadataJson == <<"m", "e", "t", "a", "d", "a", "t", "a", ".", "j", "s", "o", "n">>

\* main, lines 119-120 with a SystemExit raised by _collect_demo_ids: the
\* interpreter exits with status 1.
MainUsageError ==
    /\ pc = "main"
    /\ _collect_demo_ids(Get(args)).exit = "SystemExit"
    /\ pc' = "exit"
    /\ exit_status' = Some(1)
    /\ UNCHANGED <<args, downloader, demo_ids, results, demo_id, attempt, last_error,
                   pending, fs, metadata_file, clock, out, exc, calls, chunks_read,
                   recorded, delivered,
                   last_response, record_raised,
                   record_env, fs_error, fs_before>>

\* main, line 120 with an ID file that cannot be opened: the OSError is not caught.
MainFileError ==
    /\ pc = "main"
    /\ _collect_demo_ids(Get(args)).exit = "OSError"
    /\ pc' = "raised"
    /\ exc' = Some("OSError")
    /\ UNCHANGED <<args, downloader, demo_ids, results, demo_id, attempt, last_error,
                   pending, fs, metadata_file, clock, out, exit_status, calls, chunks_read,
                   recorded, delivered,
                   last_response, record_raised,
                   record_env, fs_error, fs_before>>

\* main, lines 121-122: parser.error exits with status 2.
MainNoIds ==
    /\ pc = "main"
    /\ _collect_demo_ids(Get(args)).exit = "ok"
    /\ _collect_demo_ids(Get(args)).ids = <<>>
    /\ pc' = "exit"
    /\ exit_status' = Some(2)
    /\ UNCHANGED <<args, downloader, demo_ids, results, demo_id, attempt, last_error,
                   pending, fs, metadata_file, clock, out, exc, calls, chunks_read,
                   recorded, delivered,
                   last_response, record_raised,
                   record_env, fs_error, fs_before>>

\* main, lines 120-135: the IDs are collected, the downloader is built and
\* download_many is entered.
MainStart ==
    /\ pc = "main"
    /\ _collect_demo_ids(Get(args)).exit = "ok"
    /\ _collect_demo_ids(Get(args)).ids # <<>>
    /\ demo_ids' = _collect_demo_ids(Get(args)).ids
    /\ downloader' = Some(DemoDownloader(
           Get(args).retries, ~Get(args).overwrite,
           IF ~IsNone(Get(args).metadata_file) THEN Get(args).metadata_file
           ELSE Some(MetadataJson)))
    /\ pc' = "download_many"
    /\ UNCHANGED <<args, results, demo_id, attempt, last_error, pending, fs, metadata_file,
                   clock, out, exit_status, exc, calls, chunks_read, recorded, delivered,
                   last_response, record_raised,
                   record_env, fs_error, fs_before>>

\* ------------------------------------------ downloader.py: download_many
\* The index of the ID the loop of line 63 takes next.
NextIndex == Len(results) + 1

\* Lines 63-64 and 69-70: the loop takes the next ID and calls download_demo.
NextDemo ==
    /\ pc = "download_many"
    /\ Len(results) < Len(demo_ids)
    /\ demo_id' = demo_ids[NextIndex]
    /\ attempt' = 1
    /\ last_error' = None
    /\ calls' = 0
    /\ chunks_read' = 0
    /\ delivered' = None
    /\ last_response' = None
    /\ pc' = "download_demo"
    /\ fs_before' = fs
    /\ UNCHANGED <<args, downloader, demo_ids, results, pending, fs, metadata_file, clock,
                   out, exit_status, exc, recorded,
                   record_raised,
                   record_env, fs_error>>

\* Line 66: the loop is over and download_many returns, to main (line 135)
\* or to another caller.
ReturnResults ==
    /\ pc = "download_many"
    /\ Len(results) = Len(demo_ids)
    /\ pc' = IF IsNone(args) THEN "returned" ELSE "summary"
    /\ UNCHANGED <<args, downloader, demo_ids, results, demo_id, attempt, last_error,
                   pending, fs, metadata_file, clock, out, exit_status, exc, calls,
                   chunks_read, recorded, delivered,
                   last_response, record_raised,
                   record_env, fs_error, fs_before>>
\* ------------------------------------------ downloader.py: download_demo
\* A download_many that leaves its loop at the first failed result.
ReturnsStops(result) ==
    /\ results' = Append(results, result)
    /\ pc' = IF result.status # "failed" THEN "download_many"
             ELSE IF IsNone(args) THEN "returned" ELSE "summary"

\* Line 65: download_many appends what download_demo returns.
Returns(result) ==
    /\ results' = Append(results, result)
    /\ pc' = "download_many"

\* The bytes written to the file from the first n chunks of a body (lines
\* 100-103: an empty chunk is skipped).
RECURSIVE Written(_, _)
Written(body, n) ==
    IF n = 0 THEN <<>>
    ELSE IF body[n] = <<>> THEN Written(body, n - 1)
    ELSE Written(body, n - 1) \o body[n]

\* A retry loop that runs once more than self.retries.
AfterRequestExceptionOnceMore(error) ==
    /\ last_error' = Some(error)
    /\ IF attempt <= Get(downloader).retries
       THEN /\ attempt' = attempt + 1
            /\ pc' = "download_demo"
            /\ results' = results
       ELSE /\ attempt' = attempt
            /\ results' = Append(results, DownloadResult(
                   demo_id, "failed",
                   <<"Failed after ">> \o PyStr(Get(downloader).retries)
                       \o <<" attempts: ", error>>,
                   None))
            /\ pc' = "download_many"

\* Lines 122-133: a RequestException ends the attempt; the loop goes on to
\* the next attempt, or past the last one returns the failed result.
AfterRequestException(error) ==
    /\ last_error' = Some(error)
    /\ IF attempt < Get(downloader).retries
       THEN /\ attempt' = attempt + 1
            /\ pc' = "download_demo"
            /\ results' = results
       ELSE /\ attempt' = attempt
            /\ Returns(DownloadResult(
                   demo_id, "failed",
                   <<"Failed after ">> \o PyStr(Get(downloader).retries)
                       \o <<" attempts: ", error>>,
                   None))

\* Line 74: scraper.get raises a RequestException (there is no response).
FetchRaises(error) ==
    /\ pc = "download_demo"
    /\ calls' = calls + 1
    /\ last_response' = None
    /\ chunks_read' = 0
    /\ AfterRequestException(error)
    /\ UNCHANGED <<args, downloader, demo_ids, demo_id, pending, fs, metadata_file, clock,
                   out, exit_status, exc, recorded, delivered,
                   record_raised,
                   record_env, fs_error, fs_before>>

\* A download_demo that hands a 404 to raise_for_status like any other
\* error status.
FetchNotFoundRetried(response) ==
    /\ pc = "download_demo"
    /\ response.status_code = 404
    /\ calls' = calls + 1
    /\ last_response' = Some(response)
    /\ chunks_read' = 0
    /\ AfterRequestException("HTTPError")
    /\ UNCHANGED <<args, downloader, demo_ids, demo_id, pending, fs, metadata_file, clock,
                   out, exit_status, exc, recorded, delivered, record_raised,
                   record_env, fs_error, fs_before>>

\* Lines 75-76: status 404.
FetchNotFound(response) ==
    /\ pc = "download_demo"
    /\ response.status_code = 404
    /\ calls' = calls + 1
    /\ last_response' = Some(response)
    /\ chunks_read' = 0
    /\ Returns(DownloadResult(demo_id, "not_found", <<"Demo ID does not exist">>, None))
    /\ UNCHANGED <<args, downloader, demo_ids, demo_id, attempt, last_error, pending, fs,
                   metadata_file, clock, out, exit_status, exc, recorded, delivered,
                   record_raised,
                   record_env, fs_error, fs_before>>

\* Line 77: raise_for_status raises HTTPError for a status of 400 and above.
FetchErrorStatus(response) ==
    /\ pc = "download_demo"
    /\ response.status_code # 404 /\ response.status_code >= 400
    /\ calls' = calls + 1
    /\ last_response' = Some(response)
    /\ chunks_read' = 0
    /\ AfterRequestException("HTTPError")
    /\ UNCHANGED <<args, downloader, demo_ids, demo_id, pending, fs, metadata_file, clock,
                   out, exit_status, exc, recorded, delivered,
                   record_raised,
                   record_env, fs_error, fs_before>>

\* A download_demo that never looks for the file.
SkipsNever(filename) == FALSE

\* Lines 81-88 return skipped: skip_existing is set and the file exists.
\* filename is _filename_from_response(response, demo_id), line 79.
Skips(filename) == Get(downloader).skip_existing /\ filename \in DOMAIN fs

FetchSkipped(response, filename) ==
    /\ pc = "download_demo"
    /\ response.status_code < 400
    /\ Skips(filename)
    /\ calls' = calls + 1
    /\ last_response' = Some(response)
    /\ chunks_read' = 0
    /\ Returns(DownloadResult(demo_id, "skipped", <<"File already exists">>, Some(filename)))
    /\ UNCHANGED <<args, downloader, demo_ids, demo_id, attempt, last_error, pending, fs,
                   metadata_file, clock, out, exit_status, exc, recorded, delivered,
                   record_raised,
                   record_env, fs_error, fs_before>>

\* A download_demo whose handler of line 122 also takes the OSError of
\* open: the attempt ends like one the network broke.
FetchOpenFailsRetried(response, filename, transfer) ==
    /\ pc = "download_demo"
    /\ response.status_code < 400
    /\ ~Skips(filename)
    /\ transfer.io = "open_fails"
    /\ calls' = calls + 1
    /\ last_response' = Some(response)
    /\ chunks_read' = 0
    /\ fs_error' = Some("open")
    /\ AfterRequestException("OSError")
    /\ UNCHANGED <<args, downloader, demo_ids, demo_id, pending, fs, metadata_file, clock,
                   out, exit_status, exc, recorded, delivered, record_raised,
                   record_env, fs_before>>

\* Line 99: destination.open("wb") raises OSError; it is no RequestException
\* and leaves download_demo, download_many and main.
FetchOpenFails(response, filename, transfer) ==
    /\ pc = "download_demo"
    /\ response.status_code < 400
    /\ ~Skips(filename)
    /\ transfer.io = "open_fails"
    /\ calls' = calls + 1
    /\ last_response' = Some(response)
    /\ chunks_read' = 0
    /\ pc' = "raised"
    /\ exc' = Some("OSError")
    /\ fs_error' = Some("open")
    /\ UNCHANGED <<args, downloader, demo_ids, results, demo_id, attempt, last_error,
                   pending, fs, metadata_file, clock, out, exit_status, recorded, delivered,
                   record_raised,
                   record_env, fs_before>>

\* A download_demo that hands the file of a broken stream to the collector.
FetchStreamBreaksRecorded(response, filename, transfer) ==
    /\ pc = "download_demo"
    /\ response.status_code < 400
    /\ ~Skips(filename)
    /\ transfer.io = "stream_breaks"
    /\ calls' = calls + 1
    /\ last_response' = Some(response)
    /\ chunks_read' = transfer.cut
    /\ fs' = SetItem(fs, filename, Written(transfer.body, transfer.cut))
    /\ IF Get(downloader).metadata_collector
       THEN /\ pending' = Some([destination |-> filename, response |-> response])
            /\ pc' = "record_download"
            /\ UNCHANGED <<results, attempt, last_error>>
       ELSE /\ pending' = pending
            /\ AfterRequestException("ChunkedEncodingError")
    /\ UNCHANGED <<args, downloader, demo_ids, demo_id, metadata_file, clock, out,
                   exit_status, exc, recorded, delivered, record_raised,
                   record_env, fs_error, fs_before>>

\* Lines 99-103 with iter_content raising a RequestException after
\* transfer.cut chunks: the file keeps what was written, and the attempt
\* ends as at line 122.
FetchStreamBreaks(response, filename, transfer) ==
    /\ pc = "download_demo"
    /\ response.status_code < 400
    /\ ~Skips(filename)
    /\ transfer.io = "stream_breaks"
    /\ calls' = calls + 1
    /\ last_response' = Some(response)
    /\ chunks_read' = transfer.cut
    /\ fs' = SetItem(fs, filename, Written(transfer.body, transfer.cut))
    /\ AfterRequestException("ChunkedEncodingError")
    /\ UNCHANGED <<args, downloader, demo_ids, demo_id, pending, metadata_file, clock, out,
                   exit_status, exc, recorded, delivered,
                   record_raised,
                   record_env, fs_error, fs_before>>

\* Lines 99-103 with file_handle.write raising OSError on chunk transfer.cut
\* (a chunk that is not empty): the file keeps the chunks before it.
FetchWriteFails(response, filename, transfer) ==
    /\ pc = "download_demo"
    /\ response.status_code < 400
    /\ ~Skips(filename)
    /\ transfer.io = "write_fails"
    /\ calls' = calls + 1
    /\ last_response' = Some(response)
    /\ chunks_read' = transfer.cut
    /\ fs' = SetItem(fs, filename, Written(transfer.body, transfer.cut - 1))
    /\ pc' = "raised"
    /\ exc' = Some("OSError")
    /\ fs_error' = Some("write")
    /\ UNCHANGED <<args, downloader, demo_ids, results, demo_id, attempt, last_error,
                   pending, metadata_file, clock, out, exit_status, recorded, delivered,
                   record_raised,
                   record_env, fs_before>>

\* The bytes of a body, chunk after chunk.
RECURSIVE Concat(_)
Concat(body) == IF body = <<>> THEN <<>> ELSE Head(body) \o Concat(Tail(body))

\* Lines 99-108: the body is streamed to its end and the file is closed.
\* Line 109 then hands over to the collector, or line 121 returns.
FetchStreams(response, filename, transfer) ==
    /\ pc = "download_demo"
    /\ response.status_code < 400
    /\ ~Skips(filename)
    /\ transfer.io = "ok"
    /\ calls' = calls + 1
    /\ last_response' = Some(response)
    /\ chunks_read' = Len(transfer.body)
    /\ fs' = SetItem(fs, filename, Written(transfer.body, Len(transfer.body)))
    /\ delivered' = Some(Concat(transfer.body))
    /\ IF Get(downloader).metadata_collector
       THEN /\ pending' = Some([destination |-> filename, response |-> response])
            /\ pc' = "record_download"
            /\ results' = results
       ELSE /\ pending' = pending
            /\ Returns(DownloadResult(demo_id, "downloaded", <<>>, Some(filename)))
    /\ UNCHANGED <<args, downloader, demo_ids, demo_id, attempt, last_error, metadata_file,
                   clock, out, exit_status, exc, recorded,
                   record_raised,
                   record_env, fs_error, fs_before>>

\* A handler that takes the errors of the network only.
CatchesRequestErrors(raised) == raised \in {"ConnectionError", "HTTPError"}

\* Line 117: the handler takes every Exception record_download raises.
HandlerCatches(raised) == TRUE

\* Lines 109-121: record_download is called and the downloaded result is
\* returned; an exception it raises is caught at line 117.  One the handler
\* did not take would reach line 122 (a RequestException) or leave the call.
RecordDownload(env) ==
    /\ pc = "record_download"
    /\ LET p == Get(pending)
           r == record_download(metadata_file, demo_id, p.destination,
                                Len(fs[p.destination]), DemoUrl(demo_id), p.response,
                                env, clock)
       IN /\ metadata_file' = r.file
          /\ record_raised' = r.raised
          /\ IF IsNone(r.raised) \/ HandlerCatches(Get(r.raised))
             THEN /\ Returns(DownloadResult(demo_id, "downloaded", <<>>, Some(p.destination)))
                  /\ UNCHANGED <<attempt, last_error, exc>>
             ELSE IF Get(r.raised) \in {"ConnectionError", "HTTPError"}
                  THEN /\ AfterRequestException(Get(r.raised))
                       /\ exc' = exc
                  ELSE /\ pc' = "raised"
                       /\ exc' = r.raised
                       /\ UNCHANGED <<results, attempt, last_error>>
    /\ clock' = clock + 1
    /\ recorded' = Append(recorded, demo_id)
    /\ pending' = None
    /\ record_env' = Some(env)
    /\ UNCHANGED <<args, downloader, demo_ids, demo_id, fs, out, exit_status, calls,
                   chunks_read, delivered,
                   last_response,
                   fs_error, fs_before>>

\* ----------------------------------------------- cli.py: _print_summary
\* Attribute lookup on a DownloadResult: it has the fields of lines 26-29.
HasAttr(result, name) == name \in DOMAIN result

\* _format_bytes: "0 B" for nothing, else the size scaled by 1024 to the
\* first unit it is below 1024 of, kept in hundredths (two decimals).
Units == <<"B", "KB", "MB", "GB", "TB", "PB">>
RECURSIVE FormatLoop(_, _)
FormatLoop(hundredths, u) ==
    IF hundredths < 102400 \/ u = Len(Units)
    THEN [hundredths |-> hundredths, unit |-> Units[u]]
    ELSE FormatLoop(hundredths \div 1024, u + 1)
_format_bytes(num_bytes) ==
    IF num_bytes <= 0 THEN [hundredths |-> 0, unit |-> "B"]
    ELSE FormatLoop(num_bytes * 100, 1)

\* The loop of lines 181-190 over the results: [raised, counts,
\* bytes_downloaded, lines].  Reading result.bytes_downloaded (line 186)
\* raises AttributeError when the result has no such attribute.
RECURSIVE SummaryLoop(_, _)
SummaryLoop(rs, acc) ==
    IF rs = <<>> THEN acc
    ELSE LET result == Head(rs)
             counts == [acc.counts EXCEPT ![result.status] = @ + 1]
         IN IF result.status = "downloaded" /\ ~HasAttr(result, "bytes_downloaded")
            THEN [acc EXCEPT !.raised = Some("AttributeError"), !.counts = counts]
            ELSE SummaryLoop(Tail(rs),
                   [raised |-> None,
                    counts |-> counts,
                    bytes_downloaded |->
                        IF result.status = "downloaded"
                        THEN acc.bytes_downloaded + result.bytes_downloaded
                        ELSE acc.bytes_downloaded,
                    lines |->
                        IF result.status = "failed"
                        THEN Append(acc.lines, [line |-> "error", demo_id |-> result.demo_id])
                        ELSE IF result.status = "not_found"
                        THEN Append(acc.lines, [line |-> "warning", demo_id |-> result.demo_id])
                        ELSE acc.lines])
Summarize(rs) ==
    SummaryLoop(rs, [raised |-> None,
                     counts |-> [k \in {"downloaded", "skipped", "not_found", "failed"} |-> 0],
                     bytes_downloaded |-> 0,
                     lines |-> <<>>])

\* _print_summary raising at line 186: the exception leaves main.
PrintSummaryRaises ==
    /\ pc = "summary"
    /\ ~IsNone(Summarize(results).raised)
    /\ out' = out \o Summarize(results).lines
    /\ pc' = "raised"
    /\ exc' = Summarize(results).raised
    /\ UNCHANGED <<args, downloader, demo_ids, results, demo_id, attempt, last_error,
                   pending, fs, metadata_file, clock, exit_status, calls, chunks_read,
                   recorded, delivered,
                   last_response, record_raised,
                   record_env, fs_error, fs_before>>

\* _print_summary, lines 177-206: the per-result lines, the summary line and
\* the stats line (the elapsed time is left out of it).
PrintSummary ==
    /\ pc = "summary"
    /\ IsNone(Summarize(results).raised)
    /\ out' = out \o Summarize(results).lines
              \o << [line |-> "summary", total |-> Len(results),
                     counts |-> Summarize(results).counts],
                    [line |-> "stats",
                     downloaded |-> Summarize(results).counts["downloaded"],
                     transferred |-> _format_bytes(Summarize(results).bytes_downloaded)] >>
    /\ pc' = "summary_done"
    /\ UNCHANGED <<args, downloader, demo_ids, results, demo_id, attempt, last_error,
                   pending, fs, metadata_file, clock, exit_status, exc, calls, chunks_read,
                   recorded, delivered,
                   last_response, record_raised,
                   record_env, fs_error, fs_before>>

\* main, lines 138-139
ExitStatus(rs) ==
    IF \E i \in 1..Len(rs) : rs[i].status \notin {"downloaded", "skipped"} THEN 1 ELSE 0
MainReturn ==
    /\ pc = "summary_done"
    /\ exit_status' = Some(ExitStatus(results))
    /\ pc' = "exit"
    /\ UNCHANGED <<args, downloader, demo_ids, results, demo_id, attempt, last_error,
                   pending, fs, metadata_file, clock, out, exc, calls, chunks_read,
                   recorded, delivered,
                   last_response, record_raised,
                   record_env, fs_error, fs_before>>

\* ------------------------------------------------------- the environment
\* All sequences of at most n elements of S.
RECURSIVE SeqsUpTo(_, _)
SeqsUpTo(S, n) ==
    IF n = 0 THEN {<<>>}
    ELSE SeqsUpTo(S, n - 1) \cup
         {Append(q, x) : q \in {p \in SeqsUpTo(S, n - 1) : Len(p) = n - 1}, x \in S}

\* The exceptions scraper.get raises, and the statuses of the responses
\* that carry no demo.
FetchErrors == {"ConnectionError"}
ErrorResponses ==
    {[status_code |-> st, content_disposition |-> None, url |-> <<>>] : st \in {404, 500}}

\* Content-Disposition: attachment;filename=m
DispositionM == <<"a", "t", "t", "a", "c", "h", "m", "e", "n", "t", ";",
                  "f", "i", "l", "e", "n", "a", "m", "e", "=", "m">>
\* The responses that carry the demo of an ID, at the URL that was asked
\* for, with one of the given Content-Disposition headers (None: no header).
DemoResponses(id, dispositions) ==
    {[status_code |-> 200, content_disposition |-> d, url |-> DemoUrl(id)] :
        d \in dispositions}

\* How the transfer of one of the given bodies goes: the file cannot be
\* opened, the stream breaks after cut chunks, the write of chunk cut fails,
\* or the body arrives.
Transfers(bodies) ==
    {[body |-> <<>>, io |-> "open_fails", cut |-> 0]}
    \cup {[body |-> b, io |-> "ok", cut |-> 0] : b \in bodies}
    \cup UNION {{[body |-> b, io |-> "stream_breaks", cut |-> c] : c \in 0..Len(b)} :
                    b \in bodies}
    \cup UNION {{[body |-> b, io |-> "write_fails", cut |-> c] :
                    c \in {i \in 1..Len(b) : b[i] # <<>>}} : b \in bodies}

\* What the environment can do during one record_download.
MatchHref == <<"/", "m", "a", "t", "c", "h", "e", "s", "/", "5", "/", "x">>
Soup == [teams_box |-> <<"A", "B", "A">>, teams_dropdown |-> <<"C">>,
         data_unix |-> Some(<<"8", "6", "4", "0", "0", "0", "0", "0">>)]
OkNet == [search |-> "ok", href |-> Some(MatchHref), page |-> "ok", soup |-> Soup]
Nets ==
    {[OkNet EXCEPT !.search = "ConnectionError"],
     [OkNet EXCEPT !.search = "HTTPError"],
     [OkNet EXCEPT !.href = None],
     [OkNet EXCEPT !.page = "ConnectionError"],
     [OkNet EXCEPT !.page = "HTTPError"],
     OkNet}
Envs(nets) == [net : nets, stat_ok : BOOLEAN, write : {"ok", "open_fails", "write_fails"}]

\* An entry an earlier run left in the document.
OldEntry(name) == JObject([filename |-> name])
OldDocument ==
    JObject([demos |-> JObject((<<"9">> :> OldEntry(<<"9", "_", "m">>))),
             last_updated |-> [type |-> "string", at |-> 0]])

\* ------------------------------------------------------ specification Spec
\* The download command, run by main or by a caller of download_many.
NoArgs == [ids |-> <<>>, ids_file |-> <<>>, start_id |-> None, end_id |-> None,
           retries |-> 3, overwrite |-> FALSE, metadata_file |-> None]
IdFile == Some(<< <<"#", " ", "x">>, <<" ", "2", "\n">>, <<"\n">> >>)
BadIdFile == Some(<< <<"1", "\n">>, <<"x", "\n">> >>)
CliShapes ==
    {[NoArgs EXCEPT !.ids = <<1>>],
     [NoArgs EXCEPT !.ids = <<2, 1, 2>>, !.start_id = Some(1), !.end_id = Some(2)],
     [NoArgs EXCEPT !.ids_file = <<IdFile>>],
     [NoArgs EXCEPT !.ids = <<1>>, !.ids_file = <<BadIdFile>>],
     [NoArgs EXCEPT !.ids = <<1>>, !.ids_file = <<None>>],
     [NoArgs EXCEPT !.ids = <<1>>, !.start_id = Some(2)],
     [NoArgs EXCEPT !.ids = <<1>>, !.start_id = Some(2), !.end_id = Some(1)],
     NoArgs}
CliArgs == {[a EXCEPT !.retries = r, !.overwrite = o] :
                a \in CliShapes, r \in 0..MaxRetries, o \in BOOLEAN}

\* The batches another caller hands over: the IDs 1..MaxId, none twice.
Batches == {q \in SeqsUpTo(1..MaxId, MaxBatch) :
                \A i, j \in 1..Len(q) : i # j => q[i] # q[j]}

\* What the server sends in this specification: a named demo whose body
\* comes in two chunks, the first of them empty.
SpecDispositions == {Some(DispositionM)}
SpecBodies == { << <<>>, <<7>> >> }
SpecNets == {OkNet, [OkNet EXCEPT !.search = "ConnectionError"]}

\* The output directory at the start: empty, or holding a file of demo 1.
ExistingFile == <<"1", "_", "m">>
InitialFs == {[k \in {} |-> <<>>], (ExistingFile :> <<5, 5>>)}
InitialMetadata == {JsonFile(OldDocument), JsonFile([type |-> "list"])}

InitCommon ==
    /\ results = <<>>
    /\ demo_id = 0
    /\ attempt = 0
    /\ last_error = None
    /\ pending = None
    /\ clock = 1
    /\ out = <<>>
    /\ exit_status = None
    /\ exc = None
    /\ calls = 0
    /\ chunks_read = 0
    /\ recorded = <<>>
    /\ delivered = None
    /\ last_response = None
    /\ record_raised = None
    /\ record_env = None
    /\ fs_error = None

\* main runs the download command; the metadata file is the default one.
InitMain ==
    /\ pc = "main"
    /\ args \in {Some(a) : a \in CliArgs}
    /\ downloader = None
    /\ demo_ids = <<>>
    /\ metadata_file \in InitialMetadata

\* Another caller builds a DemoDownloader, without a metadata path (the
\* default of line 46), and calls download_many.
InitCaller ==
    /\ pc = "download_many"
    /\ args = None
    /\ downloader \in {Some(DemoDownloader(r, s, None)) : r \in 0..MaxRetries, s \in BOOLEAN}
    /\ demo_ids \in Batches
    /\ metadata_file = MissingFile

Init ==
    /\ InitCommon
    /\ fs \in InitialFs
    /\ fs_before = fs
    /\ (InitMain \/ InitCaller)

\* One attempt of download_demo, lines 72-133, for what the fetch client and
\* the file system do in it.
Attempt(dispositions, bodies) ==
    \/ \E e \in FetchErrors : FetchRaises(e)
    \/ \E r \in ErrorResponses : FetchNotFound(r) \/ FetchErrorStatus(r)
    \/ \E r \in DemoResponses(demo_id, dispositions) :
         \E filename \in {_filename_from_response(r, demo_id)} :
            \/ FetchSkipped(r, filename)
            \/ \E t \in Transfers(bodies) :
                  \/ FetchOpenFails(r, filename, t)
                  \/ FetchStreamBreaks(r, filename, t)
                  \/ FetchWriteFails(r, filename, t)
                  \/ FetchStreams(r, filename, t)

Next ==
    \/ MainUsageError
    \/ MainFileError
    \/ MainNoIds
    \/ MainStart
    \/ NextDemo
    \/ ReturnResults
    \/ (pc = "download_demo" /\ Attempt(SpecDispositions, SpecBodies))
    \/ \E env \in Envs(SpecNets) : RecordDownload(env)
    \/ PrintSummaryRaises
    \/ PrintSummary
    \/ MainReturn

Spec == Init /\ [][Next]_vars

\* --------------------------------------------------- specification SpecIds
\* main collects the IDs of a download command: explicit IDs, ID files and a
\* range, each of them given or not.  The lines an ID file can hold, and the
\* IDs each of them stands for (none for a comment or a blank line):
LineTable ==
    (<<"#", " ", "4">> :> <<>>)
    @@ (<<"\n">> :> <<>>)
    @@ (<<" ", "4", "\n">> :> <<4>>)
    @@ (<<"+", "3">> :> <<3>>)
    @@ (<<"0", "5", "\n">> :> <<5>>)
IdLines == DOMAIN LineTable
IdFiles ==
    {<<>>}
    \cup {<<Some(f)>> : f \in SeqsUpTo(IdLines, 2)}
    \cup {<<Some(f), Some(g)>> : f, g \in SeqsUpTo(IdLines, 1)}
    \cup {<<None>>, <<Some(<< <<"+", "3">>, <<"3", "x">> >>)>>}
IdRanges ==
    {[start_id |-> None, end_id |-> None],
     [start_id |-> Some(3), end_id |-> Some(4)],
     [start_id |-> Some(4), end_id |-> Some(4)],
     [start_id |-> Some(5), end_id |-> Some(3)],
     [start_id |-> Some(3), end_id |-> None]}
IdsArgs ==
    {[NoArgs EXCEPT !.ids = e, !.ids_file = f,
                    !.start_id = r.start_id, !.end_id = r.end_id] :
        e \in SeqsUpTo({3, 4, 5}, MaxExplicit), f \in IdFiles, r \in IdRanges}

InitIds ==
    /\ InitCommon
    /\ pc = "main"
    /\ args \in {Some(a) : a \in IdsArgs}
    /\ downloader = None
    /\ demo_ids = <<>>
    /\ fs = [k \in {} |-> <<>>]
    /\ fs_before = fs
    /\ metadata_file = MissingFile

NextIds ==
    \/ MainUsageError
    \/ MainFileError
    \/ MainNoIds
    \/ MainStart

SpecIds == InitIds /\ [][NextIds]_vars

\* ------------------------------------------------- specification SpecNames
\* download_demo derives the name of the file from a response (line 79).
\* The parameters a Content-Disposition header can carry here, each with
\* what it is (filename*, filename or something else) and the base name it
\* stands for:
ParamTable ==
    (<<"f", "i", "l", "e", "n", "a", "m", "e", "=", "m">>
          :> [kind |-> "plain", name |-> <<"m">>])
    @@ (<<"f", "i", "l", "e", "n", "a", "m", "e", "=", "\"", "1", "_", "m", "\"">>
          :> [kind |-> "plain", name |-> <<"1", "_", "m">>])
    @@ (<<"f", "i", "l", "e", "n", "a", "m", "e", "*", "=", "U", "T", "F", "-", "8", "'", "'", "x", "%", "2", "F", "m">>
          :> [kind |-> "star", name |-> <<"m">>])
    @@ (<<"f", "i", "l", "e", "n", "a", "m", "e", "=", "d", "/", "m">>
          :> [kind |-> "plain", name |-> <<"m">>])
    @@ (<<"F", "I", "L", "E", "N", "A", "M", "E", " ", "=", " ", "\"", "x", "\"">>
          :> [kind |-> "plain", name |-> <<"x">>])
    @@ (<<"x", "=", "1">>
          :> [kind |-> "other", name |-> <<>>])
    @@ (<<"f", "i", "l", "e", "n", "a", "m", "e", "=">>
          :> [kind |-> "plain", name |-> <<>>])
    @@ (<<"f", "i", "l", "e", "n", "a", "m", "e", "*", "=", "x">>
          :> [kind |-> "star", name |-> <<"x">>])
    @@ (<<"f", "i", "l", "e", "n", "a", "m", "e", "*", "=", "U", "T", "F", "-", "8", "'", "'", "1", "2", "_", "%", "6", "d">>
          :> [kind |-> "star", name |-> <<"1", "2", "_", "m">>])
    @@ (<<"f", "i", "l", "e", "n", "a", "m", "e", "=", ".", ".">>
          :> [kind |-> "plain", name |-> <<".", ".">>])
\* The final URLs of a response, each with the base name of its path (empty:
\* it has none).
UrlTable ==
    (<<"h", "t", "t", "p", "s", ":", "/", "/", "h", "/", "d", "/", "1", "_", "m", "?", "x", "=", "a", "/", "b">>
          :> <<"b">>)
    @@ (<<"h", "t", "t", "p", "s", ":", "/", "/", "h", "/", "m", "?", "x">>
          :> <<"m">>)
    @@ (<<"h", "t", "t", "p", "s", ":", "/", "/", "h", "/", "1", "2", "_", "x">>
          :> <<"1", "2", "_", "x">>)
    @@ (<<>>
          :> <<>>)
    @@ (<<"h", "t", "t", "p", "s", ":", "/", "/", "h", "/", "?", "q">>
          :> <<>>)
Attachment == <<"a", "t", "t", "a", "c", "h", "m", "e", "n", "t">>
\* The header with the given parameters.
RECURSIVE HeaderOf(_)
HeaderOf(ps) ==
    IF ps = <<>> THEN Attachment
    ELSE HeaderOf(SubSeq(ps, 1, Len(ps) - 1)) \o <<";", " ">> \o ps[Len(ps)]
ParamLists == SeqsUpTo(DOMAIN ParamTable, 2)
NameIds == {1, 12}
NameResponses ==
    {[status_code |-> 200, content_disposition |-> d, url |-> u] :
        d \in {None, Some(<<>>)} \cup {Some(HeaderOf(ps)) : ps \in ParamLists},
        u \in DOMAIN UrlTable}
    \cup {[status_code |-> 200, content_disposition |-> None, url |-> DemoUrl(id)] :
            id \in NameIds}

InitNames ==
    /\ results = <<>>
    /\ attempt = 0
    /\ last_error = None
    /\ pending = None
    /\ clock = 1
    /\ out = <<>>
    /\ exit_status = None
    /\ exc = None
    /\ calls = 0
    /\ chunks_read = 0
    /\ recorded = <<>>
    /\ delivered = None
    /\ record_raised = None
    /\ record_env = None
    /\ fs_error = None
    /\ pc = "filename"
    /\ demo_id \in NameIds
    /\ last_response \in {Some(r) : r \in NameResponses}
    /\ args = None
    /\ downloader = None
    /\ demo_ids = <<>>
    /\ fs = [k \in {} |-> <<>>]
    /\ fs_before = fs
    /\ metadata_file = MissingFile

\* Line 79, for an ID and the response that came for it.
DeriveFilename ==
    /\ pc = "filename"
    /\ pending' = Some([destination |-> _filename_from_response(Get(last_response), demo_id),
                        response |-> Get(last_response)])
    /\ pc' = "named"
    /\ UNCHANGED <<args, downloader, demo_ids, results, demo_id, attempt, last_error, fs,
                   metadata_file, clock, out, exit_status, exc, calls, chunks_read,
                   recorded, delivered, last_response, record_raised, record_env,
                   fs_error, fs_before>>

NextNames == DeriveFilename

SpecNames == InitNames /\ [][NextNames]_vars

\* --------------------------------------------------- specification SpecGen
\* main runs generate-id-file (cli.py lines 115-117).
OutFile == <<"o", "u", "t">>
DirOutFile == <<"d", "/", "o", "u", "t">>
GenIds == 8..(8 + MaxSpan)
GenArgs == [command : {"generate-id-file"}, start_id : GenIds, end_id : GenIds,
            output : {OutFile, DirOutFile}]
GenFs == {[k \in {} |-> <<>>], (OutFile :> <<"o", "l", "d">>), (<<"d", "/">> :> <<>>)}
GenIo == {[stage |-> st, cut |-> 0] : st \in {"ok", "mkdir", "open"}}
         \cup {[stage |-> "write", cut |-> c] : c \in 0..1}

InitGen ==
    /\ InitCommon
    /\ pc = "generate"
    /\ args \in {Some(a) : a \in GenArgs}
    /\ downloader = None
    /\ demo_ids = <<>>
    /\ fs \in GenFs
    /\ fs_before = fs
    /\ metadata_file = MissingFile

\* main, lines 115-117, when write_demo_id_file returns: main returns 0.
GenerateReturns(io) ==
    /\ pc = "generate"
    /\ LET a == Get(args)
           r == write_demo_id_file(a.start_id, a.end_id, a.output, fs, io)
       IN /\ IsNone(r.raised)
          /\ fs' = r.fs
    /\ pc' = "exit"
    /\ exit_status' = Some(0)
    /\ UNCHANGED <<args, downloader, demo_ids, results, demo_id, attempt, last_error,
                   pending, metadata_file, clock, out, exc, calls, chunks_read, recorded,
                   delivered, last_response, record_raised, record_env, fs_error,
                   fs_before>>

\* main, line 116, when write_demo_id_file raises: the exception leaves main.
GenerateRaises(io) ==
    /\ pc = "generate"
    /\ LET a == Get(args)
           r == write_demo_id_file(a.start_id, a.end_id, a.output, fs, io)
       IN /\ ~IsNone(r.raised)
          /\ fs' = r.fs
          /\ exc' = r.raised
    /\ pc' = "raised"
    /\ UNCHANGED <<args, downloader, demo_ids, results, demo_id, attempt, last_error,
                   pending, metadata_file, clock, out, exit_status, calls, chunks_read,
                   recorded, delivered, last_response, record_raised, record_env,
                   fs_error, fs_before>>

NextGen ==
    \/ \E io \in GenIo : GenerateReturns(io)
    \/ \E io \in GenIo : GenerateRaises(io)

SpecGen == InitGen /\ [][NextGen]_vars

\* -------------------------------------------------- specification SpecPair
\* A caller downloads a batch of two different IDs, one attempt each, from a
\* server that names the files as it likes: any one parameter of ParamTable
\* or no Content-Disposition header, and any final URL of UrlTable, the same
\* choice open for both IDs.
PairIds == {0, 1, 12}
PairBatches == {<<a, b>> : a, b \in PairIds} \ {<<a, a>> : a \in PairIds}
PairResponses ==
    {[status_code |-> 200, content_disposition |-> d, url |-> u] :
        d \in {None} \cup {Some(HeaderOf(<<p>>)) : p \in DOMAIN ParamTable},
        u \in DOMAIN UrlTable}

InitPair ==
    /\ InitCommon
    /\ fs \in InitialFs
    /\ fs_before = fs
    /\ pc = "download_many"
    /\ args = None
    /\ downloader \in {Some(DemoDownloader(1, s, None)) : s \in BOOLEAN}
    /\ demo_ids \in PairBatches
    /\ metadata_file = MissingFile

\* One attempt of download_demo, lines 72-133, with a response that carries
\* a demo.
PairAttempt ==
    \E r \in PairResponses :
       \E filename \in {_filename_from_response(r, demo_id)} :
          \/ FetchSkipped(r, filename)
          \/ \E t \in Transfers(SpecBodies) :
                \/ FetchStreamBreaks(r, filename, t)
                \/ FetchStreams(r, filename, t)

NextPair ==
    \/ NextDemo
    \/ ReturnResults
    \/ (pc = "download_demo" /\ PairAttempt)

SpecPair == InitPair /\ [][NextPair]_vars

\* -------------------------------------------------- specification SpecMeta
\* A caller builds a DemoDownloader with a metadata path and one attempt per
\* ID, and calls download_many; the network does to the collector whatever
\* it can, and the metadata file is in any of the conditions it can be
\* found in.
PriorDocument ==
    JObject([demos |-> JObject((<<"1">> :> OldEntry(<<"1", "_", "o">>))
                               @@ (<<"9">> :> OldEntry(<<"9", "_", "m">>))),
             last_updated |-> [type |-> "string", at |-> 0]])
MetaFiles ==
    {MissingFile, UnparseableFile, UndecodableFile,
     JsonFile([type |-> "list"]),
     JsonFile(JObject(EmptyMembers)),
     JsonFile(JObject([demos |-> [type |-> "list"]])),
     JsonFile(OldDocument),
     JsonFile(PriorDocument)}
MetaBatches == {<<1>>, <<2, 1>>}

InitMeta ==
    /\ InitCommon
    /\ fs \in InitialFs
    /\ fs_before = fs
    /\ pc = "download_many"
    /\ args = None
    /\ downloader \in {Some(DemoDownloader(1, s, Some(MetadataJson))) : s \in BOOLEAN}
    /\ demo_ids \in MetaBatches
    /\ metadata_file \in MetaFiles

NextMeta ==
    \/ NextDemo
    \/ ReturnResults
    \/ (pc = "download_demo" /\ Attempt(SpecDispositions, SpecBodies))
    \/ \E env \in Envs(Nets) : RecordDownload(env)

SpecMeta == InitMeta /\ [][NextMeta]_vars

\* ------------------------------------------------------------ properties
\* C1: download_many returns one result per ID of the batch, in the order
\* of the batch; every result has one of the four statuses and carries its
\* ID; a failed result does not stop the loop, which goes on to the next ID.
C1_OneResultPerId ==
    /\ [](/\ Len(results) <= Len(demo_ids)
          /\ \A i \in 1..Len(results) :
                /\ results[i].demo_id = demo_ids[i]
                /\ results[i].status \in {"downloaded", "skipped", "not_found", "failed"}
          /\ (pc \in {"returned", "summary", "summary_done", "exit"}
                => Len(results) = Len(demo_ids))
          /\ ((pc = "download_many" /\ Len(results) < Len(demo_ids)) => ENABLED NextDemo))
    /\ [][(Len(results') = Len(results) + 1 /\ results'[Len(results')].status = "failed")
            => (pc' = "download_many" /\ exc' = None)]_vars

\* download_many has returned two results, the first of them failed.
C1_Witness ==
    /\ pc = "returned"
    /\ Len(results) = 2
    /\ results[1].status = "failed"
    /\ results[2].status = "downloaded"

\* C2: the first response of status 404 ends download_demo with not_found:
\* the result carries the ID and no path, no further GET is made for the ID
\* (one GET in all when no attempt failed before), no file is created or
\* changed and the metadata collector is not called.
C2_NotFoundEndsDownload ==
    /\ [](pc = "download_demo"
            => (IsNone(last_response) \/ Get(last_response).status_code # 404))
    /\ []((pc = "download_many" /\ results # <<>> /\ IsNone(last_error)
             /\ results[Len(results)].status = "not_found") => calls = 1)
    /\ [][(/\ pc = "download_demo"
           /\ calls' = calls + 1
           /\ ~IsNone(last_response')
           /\ Get(last_response').status_code = 404)
          => (/\ Len(results') = Len(results) + 1
              /\ results'[Len(results')].demo_id = demo_id
              /\ results'[Len(results')].status = "not_found"
              /\ IsNone(results'[Len(results')].file_path)
              /\ pc' = "download_many"
              /\ fs' = fs
              /\ metadata_file' = metadata_file
              /\ recorded' = recorded
              /\ IsNone(pending'))]_vars

\* A downloader with two attempts has returned not_found after one GET, and
\* the file that was there is as it was.
C2_Witness ==
    /\ pc = "download_many"
    /\ Len(results) = 1
    /\ results[1].status = "not_found"
    /\ calls = 1
    /\ Get(downloader).retries = 2
    /\ Get(downloader).metadata_collector
    /\ ExistingFile \in DOMAIN fs
    /\ recorded = <<>>

\* C3: with r = max(1, retries), download_demo makes at most r GETs; an
\* attempt that ends in an error of the network is followed by another one
\* while fewer than r were made, and the r-th such attempt returns failed,
\* with no path and a message that names r and the last error.
C3_FailedAfterRetries ==
    /\ [](~IsNone(downloader)
            => (/\ Get(downloader).retries >= 1
                /\ calls <= Get(downloader).retries
                /\ (pc = "download_demo" => calls = attempt - 1)
                /\ (~IsNone(args) =>
                       Get(downloader).retries =
                          (IF Get(args).retries > 1 THEN Get(args).retries ELSE 1))))
    /\ [][(Len(results') = Len(results) + 1 /\ results'[Len(results')].status = "failed")
            => (/\ calls' = Get(downloader).retries
                /\ results'[Len(results')].demo_id = demo_id
                /\ IsNone(results'[Len(results')].file_path)
                /\ results'[Len(results')].message =
                      <<"Failed after ">> \o PyStr(Get(downloader).retries)
                          \o <<" attempts: ", Get(last_error')>>)]_vars
    /\ [][(/\ pc = "download_demo"
           /\ calls' = calls + 1
           /\ (IsNone(last_response')
                 \/ (Get(last_response').status_code >= 400
                       /\ Get(last_response').status_code # 404)))
          => IF calls' < Get(downloader).retries
             THEN pc' = "download_demo" /\ results' = results /\ attempt' = attempt + 1
             ELSE /\ Len(results') = Len(results) + 1
                  /\ results'[Len(results')].status = "failed"
                  /\ pc' = "download_many"]_vars

\* Two attempts were configured, two GETs were made and the result is failed.
C3_Witness ==
    /\ pc = "download_many"
    /\ results # <<>>
    /\ results[Len(results)].status = "failed"
    /\ Get(downloader).retries = 2
    /\ calls = 2

\* C4: when skip_existing is set and a file of the derived name exists as a
\* response without error status arrives, download_demo returns skipped with
\* the path of that file, reads no chunk of the body, leaves the files as
\* they are and does not call the metadata collector.
C4_SkipsExistingFile ==
    [][(/\ pc = "download_demo"
        /\ calls' = calls + 1
        /\ ~IsNone(last_response')
        /\ Get(last_response').status_code < 400
        /\ Get(downloader).skip_existing
        /\ _filename_from_response(Get(last_response'), demo_id) \in DOMAIN fs)
       => (/\ Len(results') = Len(results) + 1
           /\ results'[Len(results')].demo_id = demo_id
           /\ results'[Len(results')].status = "skipped"
           /\ results'[Len(results')].file_path =
                 Some(_filename_from_response(Get(last_response'), demo_id))
           /\ chunks_read' = 0
           /\ fs' = fs
           /\ metadata_file' = metadata_file
           /\ recorded' = recorded
           /\ IsNone(pending')
           /\ pc' = "download_many")]_vars

\* A download was skipped over the file that was in the directory.
C4_Witness ==
    /\ pc = "download_many"
    /\ results # <<>>
    /\ results[Len(results)].status = "skipped"
    /\ results[Len(results)].file_path = Some(ExistingFile)
    /\ fs[ExistingFile] = <<5, 5>>
    /\ chunks_read = 0
    /\ recorded = <<>>

\* C5: when main has run a batch to its end, its exit status is non-zero
\* exactly when some result of the batch is failed; a batch of downloaded,
\* skipped and not_found results exits with status 0.
C5_ExitStatusIffFailed ==
    (pc = "exit" /\ demo_ids # <<>> /\ Len(results) = Len(demo_ids))
       => (/\ ~IsNone(exit_status)
           /\ (Get(exit_status) # 0
                 <=> \E i \in 1..Len(results) : results[i].status = "failed"))

\* C6: when download_many has returned to main and main has ended, the
\* summary line (the total and the four counts) and the stats line (the
\* number of downloads) were logged, and main returned a status; this for
\* every mix of results, those with a downloaded result included.
C6_SummaryAlwaysLogged ==
    (/\ pc \in {"exit", "raised"}
     /\ ~IsNone(args)
     /\ demo_ids # <<>>
     /\ Len(results) = Len(demo_ids))
       => (/\ ~IsNone(exit_status)
           /\ \E i \in 1..Len(out) :
                 /\ out[i].line = "summary"
                 /\ out[i].total = Len(results)
                 /\ \A k \in {"downloaded", "skipped", "not_found", "failed"} :
                       out[i].counts[k] =
                          Cardinality({j \in 1..Len(results) : results[j].status = k})
           /\ \E i \in 1..Len(out) :
                 /\ out[i].line = "stats"
                 /\ out[i].downloaded =
                       Cardinality({j \in 1..Len(results) : results[j].status = "downloaded"}))

\* C7: a downloaded result carries the path of the file and a byte count
\* equal to the N bytes the body delivered, and the file holds exactly the
\* chunks of the body that are not empty, one after the other (N bytes).
C7_DownloadedCarriesByteCount ==
    (pc = "download_many" /\ results # <<>>
       /\ results[Len(results)].status = "downloaded")
       => LET result == results[Len(results)]
          IN /\ ~IsNone(delivered)
             /\ ~IsNone(result.file_path)
             /\ Get(result.file_path) \in DOMAIN fs
             /\ fs[Get(result.file_path)] = Get(delivered)
             /\ "bytes_downloaded" \in DOMAIN result
             /\ result.bytes_downloaded = Len(Get(delivered))

\* C8: an exception record_download raises is caught in download_demo: the
\* downloaded result is returned all the same, no further GET is made for
\* the ID, nothing leaves download_many, and the loop goes on to the next ID.
C8_CollectorFailureCaught ==
    /\ []((pc = "download_many" /\ Len(results) < Len(demo_ids)) => ENABLED NextDemo)
    /\ [][(pc = "record_download" /\ ~IsNone(record_raised'))
          => (/\ Len(results') = Len(results) + 1
              /\ results'[Len(results')].demo_id = demo_id
              /\ results'[Len(results')].status = "downloaded"
              /\ results'[Len(results')].file_path = Some(Get(pending).destination)
              /\ calls' = calls
              /\ fs' = fs
              /\ exc' = exc
              /\ pc' = "download_many")]_vars

\* record_download raised for the first ID of the batch, its result is
\* downloaded, and download_demo is at work on the second ID.
C8_Witness ==
    /\ pc = "download_demo"
    /\ Len(results) = 1
    /\ results[1].status = "downloaded"
    /\ recorded = <<demo_ids[1]>>
    /\ record_raised = Some("OSError")
    /\ demo_id = demo_ids[2]

\* C9: a record_download for ID x that finds a parseable document leaves
\* every entry of demos under a key other than str(x) as it was, removes no
\* key of demos, adds no key but str(x), and leaves every other member of
\* the document but last_updated as it was; a parseable document that is
\* no object, or whose demos is none, stays as it is.
C9_OtherEntriesKept ==
    [][(Len(recorded') = Len(recorded) + 1 /\ metadata_file.state = "json")
        => LET x == recorded'[Len(recorded')]
               HasDemos(file) ==
                   /\ file.state = "json"
                   /\ file.doc.type = "object"
                   /\ "demos" \in DOMAIN file.doc.members
                   /\ file.doc.members["demos"].type = "object"
               Keys(file) ==
                   IF HasDemos(file) THEN DOMAIN file.doc.members["demos"].members ELSE {}
               old == metadata_file
               new == metadata_file'
           IN /\ \A k \in Keys(old) :
                    /\ k \in Keys(new)
                    /\ (k # PyStr(x) =>
                          new.doc.members["demos"].members[k]
                             = old.doc.members["demos"].members[k])
              /\ Keys(new) \subseteq Keys(old) \cup {PyStr(x)}
              /\ IF old.doc.type = "object"
                 THEN \A m \in DOMAIN old.doc.members \ {"demos", "last_updated"} :
                         /\ new.state = "json"
                         /\ new.doc.type = "object"
                         /\ m \in DOMAIN new.doc.members
                         /\ new.doc.members[m] = old.doc.members[m]
                 ELSE new = old]_vars

\* The IDs the lines of the given ID files stand for, in reading order.
RECURSIVE LinesSupplied(_)
LinesSupplied(lines) ==
    IF lines = <<>> THEN <<>> ELSE LineTable[Head(lines)] \o LinesSupplied(Tail(lines))
RECURSIVE FilesSupplied(_)
FilesSupplied(files) ==
    IF files = <<>> THEN <<>>
    ELSE LinesSupplied(Get(Head(files))) \o FilesSupplied(Tail(files))

\* C10: the IDs main hands to download_many hold every supplied ID exactly
\* once and nothing else, in the order of the first occurrences in the
\* explicit IDs, then the IDs of the files, then the IDs of the range; and
\* unique_demo_ids leaves that list as it is.
C10_IdsOnceInFirstOccurrenceOrder ==
    (pc = "download_many" /\ ~IsNone(args))
       => LET a == Get(args)
              ranged == IF IsNone(a.start_id) THEN <<>>
                        ELSE [i \in 1..(Get(a.end_id) - Get(a.start_id) + 1)
                                 |-> Get(a.start_id) + i - 1]
              supplied == a.ids \o FilesSupplied(a.ids_file) \o ranged
              First(x) == CHOOSE i \in 1..Len(supplied) :
                             supplied[i] = x /\ \A j \in 1..(i - 1) : supplied[j] # x
          IN /\ \A i \in 1..Len(supplied) :
                   Cardinality({j \in 1..Len(demo_ids) : demo_ids[j] = supplied[i]}) = 1
             /\ \A j \in 1..Len(demo_ids) :
                   \E i \in 1..Len(supplied) : supplied[i] = demo_ids[j]
             /\ \A i, j \in 1..Len(demo_ids) :
                   i < j => First(demo_ids[i]) < First(demo_ids[j])
             /\ unique_demo_ids(demo_ids) = demo_ids

\* The explicit IDs 5, 3, 5 and the range 3..4 gave 5, 3, 4.
C10_Witness ==
    /\ pc = "download_many"
    /\ ~IsNone(args)
    /\ Get(args).ids = <<5, 3, 5>>
    /\ Get(args).ids_file = <<>>
    /\ Get(args).start_id = Some(3)
    /\ Get(args).end_id = Some(4)
    /\ demo_ids = <<5, 3, 4>>

\* C11: the name derived for an ID from a response starts with "<id>_" and
\* has no "/" in it; it is a base name the server supplied (or demo.rar),
\* as it is when that already starts with "<id>_" and with the prefix put
\* before it otherwise; putting the prefix on the derived name again
\* changes nothing.
C11_NameHasIdPrefix ==
    pc = "named"
       => LET name == Get(pending).destination
              prefix == PyStr(demo_id) \o <<"_">>
              HasPrefix(b) == Len(b) >= Len(prefix) /\ SubSeq(b, 1, Len(prefix)) = prefix
              supplied == {ParamTable[p].name : p \in DOMAIN ParamTable}
                          \cup {UrlTable[u] : u \in DOMAIN UrlTable}
                          \cup {PyStr(id) : id \in NameIds}
                          \cup {<<"d", "e", "m", "o", ".", "r", "a", "r">>}
          IN /\ HasPrefix(name)
             /\ \A i \in 1..Len(name) : name[i] # "/"
             /\ \E b \in supplied :
                   b # <<>> /\ name = (IF HasPrefix(b) THEN b ELSE prefix \o b)
             /\ _ensure_demo_id_prefix(name, demo_id) = name

\* The server named the file 12_m for demo 12, in a filename* parameter, and
\* that is the derived name.
C11_Witness ==
    /\ pc = "named"
    /\ demo_id = 12
    /\ Get(last_response).content_disposition
          = Some(HeaderOf(<<<<"f", "i", "l", "e", "n", "a", "m", "e", "*", "=", "U", "T", "F", "-", "8", "'", "'", "1", "2", "_", "%", "6", "d">>>>))
    /\ Get(pending).destination = <<"1", "2", "_", "m">>

\* C14: when a Content-Disposition header carries a filename* parameter and
\* a plain filename parameter, in either order, the derived name is the base
\* name of the filename* parameter (with the ID prefix); when it carries
\* only one of the two, the name is that of this one.
C14_StarParameterPreferred ==
    pc = "named"
       => LET name == Get(pending).destination
              prefix == PyStr(demo_id) \o <<"_">>
              HasPrefix(b) == Len(b) >= Len(prefix) /\ SubSeq(b, 1, Len(prefix)) = prefix
              Prefixed(b) == IF HasPrefix(b) THEN b ELSE prefix \o b
              Kinds(ps) == {ParamTable[ps[i]].kind : i \in 1..Len(ps)}
              Of(ps, kind) == ParamTable[ps[CHOOSE i \in 1..Len(ps) :
                                                ParamTable[ps[i]].kind = kind]].name
          IN \A ps \in ParamLists :
                (/\ Get(last_response).content_disposition = Some(HeaderOf(ps))
                 /\ ps # <<>>
                 /\ \A i \in 1..Len(ps) : ParamTable[ps[i]].name # <<>>
                 /\ (Len(ps) = 2 => ParamTable[ps[1]].kind # ParamTable[ps[2]].kind))
                => name = Prefixed(Of(ps, IF "star" \in Kinds(ps) THEN "star" ELSE "plain"))

\* The decimal text of the IDs of specification SpecGen.
Decimal ==
    (8 :> <<"8">>) @@ (9 :> <<"9">>) @@ (10 :> <<"1", "0">>) @@ (11 :> <<"1", "1">>)
    @@ (12 :> <<"1", "2">>) @@ (13 :> <<"1", "3">>)

\* C12: generate-id-file with end_id < start_id fails and leaves every file
\* and directory as it was (the output file and its directory are not
\* created); with end_id >= start_id, when it returns, the output file
\* holds the IDs start_id..end_id in ascending order, one per line, and no
\* other file has changed.
C12_IdFileWritten ==
    (pc \in {"exit", "raised"} /\ ~IsNone(args) /\ "command" \in DOMAIN Get(args))
       => LET a == Get(args)
              n == a.end_id - a.start_id + 1
          IN IF a.end_id < a.start_id
             THEN /\ pc = "raised"
                  /\ IsNone(exit_status)
                  /\ fs = fs_before
             ELSE pc = "exit"
                    => /\ a.output \in DOMAIN fs
                       /\ Split(fs[a.output], "\n")
                            = [i \in 1..(n + 1) |->
                                 IF i <= n THEN Decimal[a.start_id + i - 1] ELSE <<>>]
                       /\ \A k \in DOMAIN fs_before :
                             k # a.output => (k \in DOMAIN fs /\ fs[k] = fs_before[k])
                       /\ DOMAIN fs \subseteq DOMAIN fs_before \cup {a.output, <<"d", "/">>}

\* generate-id-file 9 11 d/out has written 9, 10 and 11 and made the directory.
C12_Witness ==
    /\ pc = "exit"
    /\ ~IsNone(args)
    /\ "command" \in DOMAIN Get(args)
    /\ Get(args).start_id = 9
    /\ Get(args).end_id = 11
    /\ fs_before = [k \in {} |-> <<>>]
    /\ fs = (<<"d", "/">> :> <<>>)
            @@ (DirOutFile :> <<"9", "\n", "1", "0", "\n", "1", "1", "\n">>)

\* C13: a download command with a usage error (an ID file with a line that
\* is no integer, a range with one end only, a range with end < start, or
\* no ID at all) ends before a downloader exists: no GET is made, no result
\* is produced, no file changes, also when valid IDs came with the bad
\* input; the run ends with a non-zero exit status.
C13_UsageErrorBeforeFetch ==
    (~IsNone(args) /\ "ids" \in DOMAIN Get(args))
       => LET a == Get(args)
              bad_line == \E i \in 1..Len(a.ids_file) :
                             /\ a.ids_file[i] = BadIdFile
                             /\ \A j \in 1..(i - 1) : ~IsNone(a.ids_file[j])
              one_end == IsNone(a.start_id) # IsNone(a.end_id)
              reversed == /\ ~IsNone(a.start_id)
                          /\ ~IsNone(a.end_id)
                          /\ Get(a.end_id) < Get(a.start_id)
              no_ids == /\ a.ids = <<>>
                        /\ a.ids_file = <<>>
                        /\ IsNone(a.start_id)
                        /\ IsNone(a.end_id)
          IN (bad_line \/ one_end \/ reversed \/ no_ids)
                => /\ pc \in {"main", "exit"}
                   /\ IsNone(downloader)
                   /\ results = <<>>
                   /\ calls = 0
                   /\ IsNone(last_response)
                   /\ recorded = <<>>
                   /\ fs = fs_before
                   /\ ENABLED (MainUsageError \/ MainNoIds) \/ pc = "exit"
                   /\ (pc = "exit" => (~IsNone(exit_status) /\ Get(exit_status) # 0))

\* The run with --id 1 and an ID file with a bad line has ended with status 1.
C13_Witness ==
    /\ pc = "exit"
    /\ ~IsNone(args)
    /\ Get(args).ids = <<1>>
    /\ Get(args).ids_file = <<BadIdFile>>
    /\ exit_status = Some(1)
    /\ results = <<>>

\* C15: once open or write of the destination file has raised OSError in
\* download_demo, the error is what leaves the call: the run is at the raised
\* exception, no GET follows the one of the failing attempt, no result is
\* ever appended for the ID (so no downloaded, skipped or failed one), and
\* nothing more happens in the run.
C15_FilesystemErrorSurfaces ==
    ~IsNone(fs_error)
       => /\ pc = "raised"
          /\ exc = Some("OSError")
          /\ calls = attempt
          /\ Len(results) < Len(demo_ids)
          /\ demo_ids[Len(results) + 1] = demo_id
          /\ IsNone(exit_status)
          /\ ~ENABLED Next

\* The first write of the first attempt failed where two more attempts were
\* allowed.
C15_Witness ==
    /\ fs_error = Some("write")
    /\ attempt = 1
    /\ ~IsNone(downloader)
    /\ Get(downloader).retries >= 2
    /\ pc = "raised"
    /\ demo_id \notin {results[i].demo_id : i \in 1..Len(results)}

\* A metadata file record_download can merge an entry into: none, text that
\* is no JSON, or a JSON object whose demos member, if any, is an object.
Mergeable(file) ==
    \/ file.state \in {"missing", "unparseable"}
    \/ /\ file.state = "json"
       /\ file.doc.type = "object"
       /\ ("demos" \in DOMAIN file.doc.members => file.doc.members["demos"].type = "object")
\* The entry of an ID in a metadata file that holds one.
EntryOf(file, id) == file.doc.members["demos"].members[PyStr(id)]
HasEntry(file, id) ==
    /\ file.state = "json"
    /\ file.doc.type = "object"
    /\ "demos" \in DOMAIN file.doc.members
    /\ file.doc.members["demos"].type = "object"
    /\ PyStr(id) \in DOMAIN file.doc.members["demos"].members
\* A step that is one call of record_download.
RecordStep == recorded' # recorded

\* C16 as stated: a non-success status of the search GET makes
\* record_download raise the HTTPError to its caller.
C16_SearchFailurePropagates ==
    [][(RecordStep /\ Get(record_env').net.search = "HTTPError")
          => record_raised' = Some("HTTPError")]_vars

\* C16, amended: a non-success status of the search GET never leaves
\* record_download; the call goes on with match_info null, and where stat,
\* the load and the write of the metadata file succeed it returns normally
\* with the entry of the ID written, match_info null in it.
C16_SearchFailureCaught ==
    [][(RecordStep /\ Get(record_env').net.search = "HTTPError")
          => /\ record_raised' \notin {Some("HTTPError"), Some("ConnectionError")}
             /\ (/\ Get(record_env').stat_ok
                 /\ Get(record_env').write = "ok"
                 /\ Mergeable(metadata_file))
                   => /\ IsNone(record_raised')
                      /\ HasEntry(metadata_file', demo_id)
                      /\ EntryOf(metadata_file', demo_id).members.match_info = None
                      /\ EntryOf(metadata_file', demo_id).members.filename
                            = Get(pending).destination]_vars

\* record_download has returned normally after the search GET came back
\* with an error status, and the entry it wrote has match_info null.
C16_Witness ==
    /\ ~IsNone(record_env)
    /\ Get(record_env).net.search = "HTTPError"
    /\ IsNone(record_raised)
    /\ recorded # <<>>
    /\ HasEntry(metadata_file, recorded[Len(recorded)])
    /\ EntryOf(metadata_file, recorded[Len(recorded)]).members.match_info = None

\* https://www.hltv.org/matches/5/x, the URL the href /matches/5/x of the
\* result card resolves to.
ResolvedMatchUrl ==
    <<"h", "t", "t", "p", "s", ":", "/", "/", "w", "w", "w", ".", "h", "l", "t", "v", ".",
      "o", "r", "g", "/", "m", "a", "t", "c", "h", "e", "s", "/", "5", "/", "x">>

\* C17: when the search yields the href of a match page and the fetch of
\* that page fails, the failure does not leave record_download, and where
\* stat, the load and the write of the metadata file succeed the call
\* returns normally with an entry for the ID whose match_info has the
\* resolved URL, the match ID parsed from it, no teams and a null date.
C17_PageFailureGivesPartialRecord ==
    [][(/\ RecordStep
        /\ Get(record_env').net.search = "ok"
        /\ Get(record_env').net.href = Some(MatchHref)
        /\ Get(record_env').net.page # "ok")
          => /\ record_raised' \notin {Some("HTTPError"), Some("ConnectionError")}
             /\ (/\ Get(record_env').stat_ok
                 /\ Get(record_env').write = "ok"
                 /\ Mergeable(metadata_file))
                   => /\ IsNone(record_raised')
                      /\ HasEntry(metadata_file', demo_id)
                      /\ EntryOf(metadata_file', demo_id).members.match_info
                            = Some([match_id |-> Some(<<"5">>),
                                    match_url |-> Some(ResolvedMatchUrl),
                                    teams |-> <<>>,
                                    date |-> None])]_vars

\* record_download has returned normally after the match page answered with
\* an error status, and the entry it wrote names the match and no team.
C17_Witness ==
    /\ ~IsNone(record_env)
    /\ Get(record_env).net.search = "ok"
    /\ Get(record_env).net.page = "HTTPError"
    /\ IsNone(record_raised)
    /\ recorded # <<>>
    /\ HasEntry(metadata_file, recorded[Len(recorded)])
    /\ ~IsNone(EntryOf(metadata_file, recorded[Len(recorded)]).members.match_info)
    /\ Get(EntryOf(metadata_file, recorded[Len(recorded)]).members.match_info).teams = <<>>

\* What C18 asks of a record_download step that finds the metadata file in
\* one of the given conditions, where stat and the write succeed: the call
\* returns normally and the file is a JSON object whose demos map holds the
\* entry of the ID, named after the file just written, and nothing else,
\* with last_updated set.
StartsFromEmptyDocument(conditions) ==
    (/\ RecordStep
     /\ metadata_file.state \in conditions
     /\ Get(record_env').stat_ok
     /\ Get(record_env').write = "ok")
       => /\ IsNone(record_raised')
          /\ HasEntry(metadata_file', demo_id)
          /\ DOMAIN metadata_file'.doc.members = {"demos", "last_updated"}
          /\ DOMAIN metadata_file'.doc.members["demos"].members = {PyStr(demo_id)}
          /\ EntryOf(metadata_file', demo_id).members.filename = Get(pending).destination
          /\ metadata_file'.doc.members["last_updated"] = [type |-> "string", at |-> clock]

\* C18: record_download treats a missing metadata file and one that cannot
\* be parsed (its bytes are no UTF-8 text, or its text is no JSON) as the
\* empty document and is never aborted by it: after the call the file is a
\* JSON object with the entry of the ID in demos and last_updated set.
C18_UnparseableFileIsEmptyDocument ==
    [][StartsFromEmptyDocument({"missing", "unparseable", "undecodable"})]_vars

\* The part of C18 that holds: a missing file, and a file of text that is
\* no JSON.
C18_TextFileIsEmptyDocument ==
    [][StartsFromEmptyDocument({"missing", "unparseable"})]_vars

\* The demos map of a metadata file, empty where the file holds none.
DemosOf(file) ==
    IF /\ file.state = "json"
       /\ file.doc.type = "object"
       /\ "demos" \in DOMAIN file.doc.members
       /\ file.doc.members["demos"].type = "object"
    THEN file.doc.members["demos"].members
    ELSE EmptyMembers

\* C19: the collector is called, and the metadata file changes, only in
\* the download_demo call that has streamed the whole body of the ID into
\* the destination file: the file then holds every byte that was sent, the
\* call returns downloaded for that ID, and the one key of the demos map
\* that is added or overwritten is the one of that ID, with the size of the
\* complete file in its entry.  No step that appends a not_found, skipped or
\* failed result touches the file.
C19_CollectorOnlyAfterCompleteFile ==
    [][(RecordStep \/ metadata_file' # metadata_file)
          => /\ pc = "record_download"
             /\ recorded' = Append(recorded, demo_id)
             /\ ~IsNone(delivered)
             /\ ~IsNone(pending)
             /\ Get(pending).destination \in DOMAIN fs
             /\ fs[Get(pending).destination] = Get(delivered)
             /\ fs' = fs
             /\ results' = Append(results, results'[Len(results')])
             /\ results'[Len(results')].status = "downloaded"
             /\ results'[Len(results')].demo_id = demo_id
             /\ \A k \in DOMAIN DemosOf(metadata_file') :
                   \/ /\ k = PyStr(demo_id)
                      /\ DemosOf(metadata_file')[k].members.file_size = Len(Get(delivered))
                   \/ /\ k \in DOMAIN DemosOf(metadata_file)
                      /\ DemosOf(metadata_file')[k] = DemosOf(metadata_file)[k]]_vars

\* A batch of two: the first ID ended not_found or failed and has no key in
\* the demos map, the second was downloaded, after an attempt that failed,
\* and has one.
C19_Witness ==
    /\ Len(results) = 2
    /\ results[1].status \in {"not_found", "failed"}
    /\ results[2].status = "downloaded"
    /\ attempt >= 2
    /\ recorded = <<results[2].demo_id>>
    /\ PyStr(results[2].demo_id) \in DOMAIN DemosOf(metadata_file)
    /\ PyStr(results[1].demo_id) \notin DOMAIN DemosOf(metadata_file)

\* C20: with skip_existing and at least two attempts allowed, a
\* download_demo call returns skipped only for a destination file that was
\* there when the call began (fs_before), never for one an earlier attempt
\* of the same call left behind.
C20_SkippedOnlyForEarlierFile ==
    (/\ pc = "download_many"
     /\ results # <<>>
     /\ results[Len(results)].status = "skipped"
     /\ Get(downloader).skip_existing
     /\ Get(downloader).retries >= 2)
       => Get(results[Len(results)].file_path) \in DOMAIN fs_before

\* C21: a download_demo call that returns failed leaves the output
\* directory as it found it (fs_before): no file is new and none has lost
\* bytes, so no later run can take a partly written file for the demo.
C21_FailedLeavesNoFile ==
    (/\ pc = "download_many"
     /\ results # <<>>
     /\ results[Len(results)].status = "failed")
       => fs = fs_before

\* The decimal text of the IDs of PairIds.
PairText == (0 :> <<"0">>) @@ (1 :> <<"1">>) @@ (12 :> <<"1", "2">>)
\* The files a step of download_demo touches: those it creates or changes,
\* and the one the result it appends names.
Touched ==
    {k \in DOMAIN fs' : k \notin DOMAIN fs \/ fs'[k] # fs[k]}
    \cup (IF Len(results') > Len(results) /\ ~IsNone(results'[Len(results')].file_path)
          THEN {Get(results'[Len(results')].file_path)}
          ELSE {})

\* C22: whatever the server names it, the file a download_demo call for an
\* ID writes, or is skipped for, starts with "<id>_" and with the prefix of
\* no other ID, so the names of two IDs differ; no result of another ID of
\* the batch names it, and if it is there already it is the file an earlier
\* run left, not one this batch saved.
C22_NamesOfDistinctIdsDiffer ==
    [][pc = "download_demo"
          => \A f \in Touched :
                /\ StartsWith(f, PairText[demo_id] \o <<"_">>)
                /\ \A b \in PairIds \ {demo_id} : ~StartsWith(f, PairText[b] \o <<"_">>)
                /\ \A i \in 1..Len(results) :
                      results[i].demo_id # demo_id => results[i].file_path # Some(f)
                /\ f \in DOMAIN fs => (f = ExistingFile /\ fs[f] = <<5, 5>>)]_vars

\* The server named the file 12_m for demo 12 and then for demo 1: both are
\* downloaded, to 12_m and to 1_12_m.
C22_Witness ==
    /\ Len(results) = 2
    /\ results[1] = DownloadResult(12, "downloaded", <<>>, Some(<<"1", "2", "_", "m">>))
    /\ results[2] = DownloadResult(1, "downloaded", <<>>,
                                   Some(<<"1", "_", "1", "2", "_", "m">>))
    /\ <<"1", "2", "_", "m">> \in DOMAIN fs
    /\ <<"1", "_", "1", "2", "_", "m">> \in DOMAIN fs
    /\ fs[<<"1", "2", "_", "m">>] = fs[<<"1", "_", "1", "2", "_", "m">>]

====
